---- MODULE Spec2Model ----
(***************************************************************************)
(* Verification model of the photobooth composition code:                  *)
(*   src/src/frame_composer.py      compose_photostrip, apply_frame        *)
(*   src/src/exposure_utils.py      apply_exposure                         *)
(*   src/src/camera_handler.py      CameraHandler.capture_photo            *)
(*   src/api/routes/composition.py  POST compose route, stitch, contain    *)
(*   src/api/routes/camera.py       apply_frame_from_bytes                 *)
(***************************************************************************)
EXTENDS Integers, Sequences, FiniteSets, TLC

(***************************************************************************)
(* Bounds of the model.                                                    *)
(***************************************************************************)
MaxDim == 15
MaxPixels == 2
MaxBorder == 2

Max(a, b) == IF a >= b THEN a ELSE b
Min(a, b) == IF a <= b THEN a ELSE b
Abs(a) == IF a >= 0 THEN a ELSE -a

RECURSIVE Pow2(_)
Pow2(n) == IF n <= 0 THEN 1 ELSE 2 * Pow2(n - 1)

(***************************************************************************)
(* IEEE-754 binary64 arithmetic on the values the fit transforms compute.  *)
(* Python evaluates  scale = a / b  and  int(w * scale)  in binary64 with  *)
(* round-to-nearest-even.  For positive integers a, b, w below 2^15 the    *)
(* quotient is  fl(a/b) = M * 2^-k  with a 53 bit mantissa M, k = 52 - E   *)
(* and 2^E <= a/b < 2^(E+1).  The rounding error of the division is kept   *)
(* exactly as the integer  err = b*M - a*2^k  (|err| < b/2; a tie is       *)
(* impossible for such small operands), so that                            *)
(*      fl(a/b) = (a*2^k + err) / (b*2^k).                                 *)
(* Only 2^k mod b is needed to compute err, which keeps every intermediate *)
(* value inside the range of the model checker's integers.                 *)
(***************************************************************************)
MantissaBits == 53

\* E with 2^E <= a/b < 2^(E+1)   (binary exponent of the quotient)
RECURSIVE ExpUp(_, _, _)
ExpUp(a, b, e) == IF a >= 2 * b * Pow2(e) THEN ExpUp(a, b, e + 1) ELSE e
RECURSIVE ExpDown(_, _, _)
ExpDown(a, b, e) == IF a * Pow2(e) < b THEN ExpDown(a, b, e + 1) ELSE -e
BinExp(a, b) == IF a >= b THEN ExpUp(a, b, 0) ELSE ExpDown(a, b, 0)

\* 2^k mod b
RECURSIVE Pow2Mod(_, _)
Pow2Mod(k, b) == IF k <= 0 THEN 1 % b ELSE (2 * Pow2Mod(k - 1, b)) % b

\* a / b in binary64: the exact quotient a/b plus the rounding error
\* err / (b * 2^k) of round-to-nearest.
FloatDiv(a, b) ==
    LET e == BinExp(a, b)
        k == (MantissaBits - 1) - e
        r == ((a % b) * Pow2Mod(k, b)) % b
    IN  [num |-> a, den |-> b, exp |-> e,
         err |-> IF 2 * r < b THEN -r ELSE b - r]

\* max(x, y) of two binary64 quotients: rounding is monotone and distinct
\* quotients of small integers are never rounded to the same double.
FloatMax(x, y) == IF x.num * y.den >= y.num * x.den THEN x ELSE y
FloatMin(x, y) == IF x.num * y.den <= y.num * x.den THEN x ELSE y

\* int(w * x) for an integer w and x = fl(a/b): the product is rounded to
\* binary64 and then truncated.  When b does not divide w*a the exact
\* quotient is at least 1/b away from every integer and the truncation is
\* floor(w*a/b).  When w*a/b is an integer n, the product is n + w*err/(b*2^k):
\* a non-negative error gives n; a negative error gives n only if the product
\* is no further than half a unit in the last place below n, else n - 1.
TruncMul(w, x) ==
    LET wa == w * x.num
        n  == wa \div x.den
        f  == BinExp(n, 1)
        \* half ulp below n is 2^(f-53), or 2^(f-54) when n is a power of two
        hs == IF n = Pow2(f) THEN f - 1 ELSE f
        \* |w*err| / (b * 2^(52-exp)) <= 2^(hs-53)
        \*     <=>  2 * w * |err| * 2^exp <= b * 2^hs
        lhs == 2 * w * Abs(x.err) * (IF x.exp >= 0 THEN Pow2(x.exp) ELSE 1)
        rhs == x.den * Pow2(hs) * (IF x.exp < 0 THEN Pow2(-x.exp) ELSE 1)
    IN  IF wa % x.den # 0 THEN n
        ELSE IF x.err >= 0 THEN n
        ELSE IF lhs <= rhs THEN n
        ELSE n - 1

(***************************************************************************)
(* State.  The fit transforms and the exposure adjuster are pure functions *)
(* of their arguments: fit_in / exp_in hold the arguments drawn for one    *)
(* call and fit_out / exp_out what the call produced.                      *)
(***************************************************************************)
VARIABLES fit_in, fit_out, exp_in, exp_out

\* One composition call: the entry point that is running (op), its position
\* (pc), the caller's arguments (args) and the locals of compose_photostrip /
\* stitch_photostrip_from_bytes, named as in the source.
VARIABLES op, pc, args, exposure_values, frame_paths_list, photo_bytes_list,
          framed_photos, grid, resized_photos, photostrip, result

\* The opacity mask resolver is a pure function of the cropped frame asset:
\* mask_in holds the asset drawn for one call, mask_out what the call made.
VARIABLES mask_in, mask_out

\* TemplateStorage: the JSON files of the templates directory (files), the
\* last save or delete that was called (store_call) and what the load_all
\* that followed returned (loaded).
VARIABLES files, store_call, loaded

\* LoginPage: the widgets and attributes of one page, and the single-shot
\* timers that are pending.
VARIABLES pin_input, error_label, is_authenticated, failed_attempts, timers,
          last_verify

\* CaptureDisplayPage: the attributes and widgets of the page (self), the
\* signal it has emitted, the arguments of its call of compose_photostrip
\* (compose_call), and what lies outside the page (world): the number of
\* shots the camera has delivered and whether the frame file exists.
VARIABLES self, signal, compose_call, world

fitVars == <<fit_in, fit_out>>
expVars == <<exp_in, exp_out>>
maskVars == <<mask_in, mask_out>>
storeVars == <<files, store_call, loaded>>
loginVars == <<pin_input, error_label, is_authenticated, failed_attempts,
               timers, last_verify>>
captureVars == <<self, signal, compose_call, world>>
standaloneVars == <<maskVars, storeVars, loginVars, captureVars>>
composeVars == <<op, pc, args, exposure_values, frame_paths_list,
                 photo_bytes_list, framed_photos, grid, resized_photos,
                 photostrip, result>>

Dims == 1..MaxDim

NoOutput == [op |-> "none"]

(***************************************************************************)
(* Library behaviour the code relies on.                                   *)
(***************************************************************************)
\* PIL Image.resize and cv2.resize refuse an empty destination size.
ResizeFails(w, h) == w < 1 \/ h < 1

\* Length of the numpy slice a[start : stop] of an axis of length len
\* (negative indices count from the end, both ends are clipped).
SliceIndex(len, i) == IF i < 0 THEN Max(i + len, 0) ELSE Min(i, len)
SliceLen(len, start, stop) ==
    Max(SliceIndex(len, stop) - SliceIndex(len, start), 0)

(***************************************************************************)
(* Cover-fit of the frame asset in apply_frame (also the first half of     *)
(* apply_frame_to_photo_pil and apply_frame_from_bytes): scale the frame   *)
(* by max(scale_x, scale_y) and crop the centre with PIL's Image.crop,     *)
(* whose result always has the size of the crop box (pixels of the box     *)
(* that lie outside the scaled image are filled with zeros).               *)
(***************************************************************************)
CoverFitFrame(photo_width, photo_height, frame_width, frame_height) ==
    LET scale_x == FloatDiv(photo_width, frame_width)
        scale_y == FloatDiv(photo_height, frame_height)
        scale   == FloatMax(scale_x, scale_y)
        scaled_frame_width  == TruncMul(frame_width, scale)
        scaled_frame_height == TruncMul(frame_height, scale)
        crop_x == (scaled_frame_width - photo_width) \div 2
        crop_y == (scaled_frame_height - photo_height) \div 2
    IN  IF ResizeFails(scaled_frame_width, scaled_frame_height)
        THEN [op |-> "cover_frame", status |-> "ValueError"]
        ELSE [op |-> "cover_frame", status |-> "ok",
              scaled_w |-> scaled_frame_width, scaled_h |-> scaled_frame_height,
              crop_x |-> crop_x, crop_y |-> crop_y,
              out_w |-> (crop_x + photo_width) - crop_x,
              out_h |-> (crop_y + photo_height) - crop_y]

(***************************************************************************)
(* CameraHandler.capture_photo: cover-crop of the camera frame (w x h) to  *)
(* the preview size with cv2.resize and a numpy slice.                     *)
(***************************************************************************)
CapturePhotoCrop(w, h, target_width, target_height) ==
    IF target_width # 0 /\ target_height # 0
    THEN LET scale_x == FloatDiv(target_width, w)
             scale_y == FloatDiv(target_height, h)
             scale   == FloatMax(scale_x, scale_y)
             scaled_w == TruncMul(w, scale)
             scaled_h == TruncMul(h, scale)
             crop_x == (scaled_w - target_width) \div 2
             crop_y == (scaled_h - target_height) \div 2
         IN  IF ResizeFails(scaled_w, scaled_h)
             THEN [op |-> "capture_photo", status |-> "cv2.error"]
             ELSE [op |-> "capture_photo", status |-> "ok",
                   scaled_w |-> scaled_w, scaled_h |-> scaled_h,
                   crop_x |-> crop_x, crop_y |-> crop_y,
                   out_w |-> SliceLen(scaled_w, crop_x, crop_x + target_width),
                   out_h |-> SliceLen(scaled_h, crop_y, crop_y + target_height)]
    ELSE [op |-> "capture_photo", status |-> "ok",
          scaled_w |-> w, scaled_h |-> h, crop_x |-> 0, crop_y |-> 0,
          out_w |-> w, out_h |-> h]

(***************************************************************************)
(* Contain-fit of apply_frame_to_photo_pil / apply_frame_from_bytes:       *)
(* scale by min(scale_x, scale_y) and centre inside (photo_width,          *)
(* photo_height).  The call sites pass the photo's own size as the         *)
(* rectangle; the operator takes the rectangle as a parameter.             *)
(***************************************************************************)
\* Variant that scales by the larger ratio (cover instead of contain).
ContainFitCover(src_w, src_h, photo_width, photo_height) ==
    LET photo_scale   == FloatMax(FloatDiv(photo_width, src_w),
                                  FloatDiv(photo_height, src_h))
        final_photo_width  == TruncMul(src_w, photo_scale)
        final_photo_height == TruncMul(src_h, photo_scale)
    IN  [op |-> "contain",
         status |-> IF ResizeFails(final_photo_width, final_photo_height)
                    THEN "ValueError" ELSE "ok",
         scale |-> photo_scale,
         new_w |-> final_photo_width, new_h |-> final_photo_height,
         photo_x |-> (photo_width - final_photo_width) \div 2,
         photo_y |-> (photo_height - final_photo_height) \div 2]

ContainFit(src_w, src_h, photo_width, photo_height) ==
    LET photo_scale_x == FloatDiv(photo_width, src_w)
        photo_scale_y == FloatDiv(photo_height, src_h)
        photo_scale   == FloatMin(photo_scale_x, photo_scale_y)
        final_photo_width  == TruncMul(src_w, photo_scale)
        final_photo_height == TruncMul(src_h, photo_scale)
    IN  [op |-> "contain", 
         status |-> IF ResizeFails(final_photo_width, final_photo_height)
                    THEN "ValueError" ELSE "ok",
         scale |-> photo_scale,
         new_w |-> final_photo_width, new_h |-> final_photo_height,
         photo_x |-> (photo_width - final_photo_width) \div 2,
         photo_y |-> (photo_height - final_photo_height) \div 2]

(***************************************************************************)
(* Exposure adjuster (src/src/exposure_utils.py).  Exposure values are     *)
(* counted in tenths of a stop, the resolution of the capture page's       *)
(* slider (value / 10.0); 8-bit samples are integers 0..255 and a frame is *)
(* the sequence of its samples.                                            *)
(***************************************************************************)
ExposureMin == -20
ExposureMax == 20
FixedPointBits == 20

\* 2^(t/10) * 2^20 rounded to the nearest integer, t = -20 .. 20.  For every
\* sample 0..255 rounding  s * Pow2Tenths[t] / 2^20  half-to-even gives the
\* value that cv2.convertScaleAbs computes in float32.
Pow2Tenths ==
    << 262144, 280959, 301124, 322737, 345901, 370728, 397336, 425854,
       456419, 489178, 524288, 561918, 602249, 645474, 691802, 741455,
       794672, 851708, 912838, 978356, 1048576, 1123836, 1204498, 1290948,
       1383604, 1482910, 1589344, 1703417, 1825677, 1956712, 2097152,
       2247672, 2408995, 2581897, 2767209, 2965821, 3178688, 3406833,
       3651354, 3913424, 4194304 >>

\* alpha = 2.0 ** exposure_value, in units of 2^-20.  Below the table only
\* whole stops are defined (2^-3, 2^-5).
ExposureAlpha(t) ==
    IF t < ExposureMin THEN Pow2(FixedPointBits + (t \div 10))
    ELSE Pow2Tenths[t - ExposureMin + 1]

\* exposure_value = max(-2.0, min(2.0, exposure_value)) without its max.
ClampExposureNoLower(exposure_value) == Min(ExposureMax, exposure_value)

\* exposure_value = min(-2.0, max(2.0, exposure_value)): min and max swapped.
ClampExposureSwapped(exposure_value) ==
    Min(ExposureMin, Max(ExposureMax, exposure_value))

\* exposure_value = max(-2.0, min(2.0, exposure_value))
ClampExposure(exposure_value) ==
    Max(ExposureMin, Min(ExposureMax, exposure_value))

\* Variant that wraps modulo 256 instead of saturating (numpy uint8
\* multiplication).
ConvertScaleWrap(s, alpha) ==
    LET n == s * alpha
        q == n \div Pow2(FixedPointBits)
        r == n % Pow2(FixedPointBits)
        rounded == IF 2 * r > Pow2(FixedPointBits)
                      \/ (2 * r = Pow2(FixedPointBits) /\ q % 2 = 1)
                   THEN q + 1 ELSE q
    IN  rounded % 256

\* Variant that truncates the product instead of rounding it.
ConvertScaleTruncate(s, alpha) ==
    Min(255, (s * alpha) \div Pow2(FixedPointBits))

\* saturate_cast<uchar>(cvRound(|alpha * s + 0|)): round half to even, then
\* saturate at 255.
ConvertScaleAbs(s, alpha) ==
    LET n == s * alpha
        q == n \div Pow2(FixedPointBits)
        r == n % Pow2(FixedPointBits)
        rounded == IF 2 * r > Pow2(FixedPointBits)
                      \/ (2 * r = Pow2(FixedPointBits) /\ q % 2 = 1)
                   THEN q + 1 ELSE q
    IN  Min(255, rounded)

apply_exposure(frame, exposure_value) ==
    IF Len(frame) = 0
    THEN [op |-> "apply_exposure", status |-> "ValueError"]
    ELSE LET clamped == ClampExposure(exposure_value)
         IN  IF clamped = 0
             THEN [op |-> "apply_exposure", status |-> "ok", frame |-> frame]
             ELSE [op |-> "apply_exposure", status |-> "ok",
                   frame |-> [i \in DOMAIN frame |->
                       ConvertScaleAbs(frame[i], ExposureAlpha(clamped))]]

(***************************************************************************)
(* Desktop compositor (src/src/frame_composer.py).                         *)
(* A photo is a numpy array of w x h pixels; its content is abstracted to  *)
(* the sequence of samples `data` (empty iff the array is empty).  Frame   *)
(* assets are files on disk, identified by their path.                     *)
(***************************************************************************)
A6Width == 1240
A6Height == 1748
DefaultBorder == 10

\* Stands for Python's None inside a list of exposure values.
PyNone == -999

FrameSimple == "frames/frame_simple.png"
FrameLarge == "frames/frame_large.png"
FrameMissing == "frames/nonexistent_frame.png"

\* The frame files that exist, with their pixel size.  When sizes have been
\* drawn for the fit transforms, the asset FrameSimple has the drawn size.
FrameFiles ==
    IF fit_in # NoOutput
    THEN (FrameSimple :> <<fit_in.sw, fit_in.sh>>)
    ELSE (FrameSimple :> <<4, 3>>) @@ (FrameLarge :> <<49, 49>>)

PathExists(path) == path \in DOMAIN FrameFiles

\* The samples of the pixels that the frame layer contributes to a framed
\* photo (line 148: the asset is opened and converted to RGBA).
FramePixels(frame_path) == <<240>>

Raise(exc) == [status |-> exc]
NoResult == [status |-> "none"]
NoCanvas == [w |-> 0, h |-> 0, cells |-> <<>>]
NoGrid == [cols |-> 0, rows |-> 0, photo_width |-> 0, photo_height |-> 0]

\* Variant whose result keeps the size of the scaled frame.
apply_frame_frame_sized(photo, frame_path) ==
    IF ~PathExists(frame_path) THEN Raise("FileNotFoundError")
    ELSE IF photo.w = 0 \/ photo.h = 0 THEN Raise("cv2.error")
    ELSE LET frame == FrameFiles[frame_path]
             photo_width == photo.w
             photo_height == photo.h
             cover == CoverFitFrame(photo_width, photo_height, frame[1], frame[2])
             photo_scale == FloatMax(FloatDiv(photo_width, photo.w),
                                     FloatDiv(photo_height, photo.h))
             final_photo_width == TruncMul(photo.w, photo_scale)
             final_photo_height == TruncMul(photo.h, photo_scale)
         IN  IF cover.status # "ok" THEN Raise("ValueError")
             ELSE IF ResizeFails(final_photo_width, final_photo_height)
             THEN Raise("ValueError")
             ELSE [status |-> "ok",
                   image |-> [unit |-> photo.unit,
                              w |-> cover.scaled_w, h |-> cover.scaled_h,
                              mode |-> "RGB", data |-> photo.data,
                              frame |-> frame_path,
                              frame_data |-> FramePixels(frame_path),
                              photo_x |-> (photo_width - final_photo_width) \div 2,
                              photo_y |-> (photo_height - final_photo_height) \div 2]]

\* apply_frame(photo, frame_path): the frame is cover-fitted to the photo's
\* size, the photo is scaled to cover its own size, and the masked frame is
\* composited over it.  The result has the photo's size and content and
\* carries the frame that decorates it.
apply_frame(photo, frame_path) ==
    IF ~PathExists(frame_path) THEN Raise("FileNotFoundError")
    ELSE IF photo.w = 0 \/ photo.h = 0 THEN Raise("cv2.error")
    ELSE LET frame == FrameFiles[frame_path]
             photo_width == photo.w
             photo_height == photo.h
             cover == CoverFitFrame(photo_width, photo_height, frame[1], frame[2])
             photo_scale == FloatMax(FloatDiv(photo_width, photo.w),
                                     FloatDiv(photo_height, photo.h))
             final_photo_width == TruncMul(photo.w, photo_scale)
             final_photo_height == TruncMul(photo.h, photo_scale)
         IN  IF cover.status # "ok" THEN Raise("ValueError")
             ELSE IF ResizeFails(final_photo_width, final_photo_height)
             THEN Raise("ValueError")
             ELSE [status |-> "ok",
                   image |-> [unit |-> photo.unit,
                              w |-> photo_width, h |-> photo_height,
                              mode |-> "RGB", data |-> photo.data,
                              frame |-> frame_path,
                              frame_data |-> FramePixels(frame_path),
                              photo_x |-> (photo_width - final_photo_width) \div 2,
                              photo_y |-> (photo_height - final_photo_height) \div 2]]

\* Lines 43-49: the local exposure_values list, one entry per photo.
NormalizedExposure(given, num_photos) ==
    IF given.is_none THEN [i \in 1..num_photos |-> 0]
    ELSE IF Len(given.list) # num_photos
    THEN [i \in 1..num_photos |->
             IF i <= Len(given.list) THEN given.list[i] ELSE 0]
    ELSE given.list

\* Variant whose cell size is rounded up instead of down.
ComposeGridRoundUp(num_photos, target_width, target_height, border) ==
    LET cols == IF num_photos = 4 THEN 1 ELSE IF num_photos = 9 THEN 3 ELSE 1
        rows == IF num_photos = 4 THEN 4 ELSE IF num_photos = 9 THEN 3
                ELSE num_photos
        available_width == target_width - (border * (cols + 1))
        available_height == target_height - (border * (rows + 1))
    IN  [cols |-> cols, rows |-> rows,
         photo_width |-> (available_width + cols - 1) \div cols,
         photo_height |-> (available_height + rows - 1) \div rows]

\* Lines 77-98: grid and cell size.
ComposeGrid(num_photos, target_width, target_height, border) ==
    LET cols == IF num_photos = 4 THEN 1 ELSE IF num_photos = 9 THEN 3 ELSE 1
        rows == IF num_photos = 4 THEN 4 ELSE IF num_photos = 9 THEN 3
                ELSE num_photos
        available_width == target_width - (border * (cols + 1))
        available_height == target_height - (border * (rows + 1))
    IN  [cols |-> cols, rows |-> rows,
         photo_width |-> available_width \div cols,
         photo_height |-> available_height \div rows]

\* Variant without the leading border offset.
PasteCellNoOffset(i, resized_photo, g, border) ==
    LET row == i \div g.cols
        col == i % g.cols
    IN  [unit |-> resized_photo.unit,
         x |-> col * (g.photo_width + border),
         y |-> row * (g.photo_height + border),
         w |-> resized_photo.w, h |-> resized_photo.h]

\* Variant that fills the grid column by column.
PasteCellColumnMajor(i, resized_photo, g, border) ==
    LET row == i % g.rows
        col == i \div g.rows
    IN  [unit |-> resized_photo.unit,
         x |-> border + (col * (g.photo_width + border)),
         y |-> border + (row * (g.photo_height + border)),
         w |-> resized_photo.w, h |-> resized_photo.h]

\* Lines 110-118: where the i-th resized photo (i counted from 0) is pasted.
PasteCell(i, resized_photo, g, border) ==
    LET row == i \div g.cols
        col == i % g.cols
    IN  [unit |-> resized_photo.unit,
         x |-> border + (col * (g.photo_width + border)),
         y |-> border + (row * (g.photo_height + border)),
         w |-> resized_photo.w, h |-> resized_photo.h]

num_photos == Len(args.photos)

(***************************************************************************)
(* compose_photostrip, one action per block of the function.               *)
(***************************************************************************)
ComposeLocalsReset ==
    /\ exposure_values = <<>>
    /\ frame_paths_list = <<>>
    /\ photo_bytes_list = <<>>
    /\ framed_photos = <<>>
    /\ grid = NoGrid
    /\ resized_photos = <<>>
    /\ photostrip = NoCanvas
    /\ result = NoResult

ComposeFail(exc) ==
    /\ result' = Raise(exc)
    /\ pc' = "done"

\* lines 36-49
compose_check_photos ==
    /\ op = "compose_photostrip" /\ pc = "check_photos"
    /\ IF num_photos = 0
       THEN /\ ComposeFail("ValueError")
            /\ UNCHANGED exposure_values
       ELSE /\ exposure_values' = NormalizedExposure(args.exposure_values, num_photos)
            /\ pc' = "check_frames"
            /\ UNCHANGED result
    /\ UNCHANGED <<op, args, photo_bytes_list, frame_paths_list, framed_photos, grid,
                   resized_photos, photostrip, fitVars, expVars, standaloneVars>>

\* Variant that looks only at the first path of a list.
compose_check_frames_first_only ==
    /\ op = "compose_photostrip" /\ pc = "check_frames"
    /\ IF args.frame_paths.is_str
       THEN IF ~PathExists(args.frame_paths.path)
            THEN /\ ComposeFail("FileNotFoundError")
                 /\ UNCHANGED frame_paths_list
            ELSE /\ frame_paths_list' = [i \in 1..num_photos |-> args.frame_paths.path]
                 /\ pc' = "frame_loop"
                 /\ UNCHANGED result
       ELSE IF \E i \in DOMAIN args.frame_paths.list :
                   i = 1 /\ ~PathExists(args.frame_paths.list[i])
            THEN /\ ComposeFail("FileNotFoundError")
                 /\ UNCHANGED frame_paths_list
            ELSE /\ frame_paths_list' = args.frame_paths.list
                 /\ pc' = "frame_loop"
                 /\ UNCHANGED result
    /\ UNCHANGED <<op, args, photo_bytes_list, exposure_values, framed_photos, grid,
                   resized_photos, photostrip, fitVars, expVars, standaloneVars>>

\* lines 54-63
compose_check_frames ==
    /\ op = "compose_photostrip" /\ pc = "check_frames"
    /\ IF args.frame_paths.is_str
       THEN IF ~PathExists(args.frame_paths.path)
            THEN /\ ComposeFail("FileNotFoundError")
                 /\ UNCHANGED frame_paths_list
            ELSE /\ frame_paths_list' = [i \in 1..num_photos |-> args.frame_paths.path]
                 /\ pc' = "frame_loop"
                 /\ UNCHANGED result
       ELSE IF \E i \in DOMAIN args.frame_paths.list :
                   ~PathExists(args.frame_paths.list[i])
            THEN /\ ComposeFail("FileNotFoundError")
                 /\ UNCHANGED frame_paths_list
            ELSE /\ frame_paths_list' = args.frame_paths.list
                 /\ pc' = "frame_loop"
                 /\ UNCHANGED result
    /\ UNCHANGED <<op, args, photo_bytes_list, exposure_values, framed_photos, grid,
                   resized_photos, photostrip, fitVars, expVars, standaloneVars>>

\* Variant whose exposure adjustment writes into the caller's photo buffer
\* (convertScaleAbs with dst=frame).
compose_frame_unit_in_place ==
    /\ op = "compose_photostrip" /\ pc = "frame_loop"
    /\ LET i == Len(framed_photos) + 1
       IN  IF i > Min(num_photos, Len(frame_paths_list))
           THEN /\ pc' = "layout"
                /\ UNCHANGED <<framed_photos, result, args>>
           ELSE LET photo == args.photos[i]
                    adjusted ==
                        IF exposure_values[i] = 0
                        THEN [status |-> "ok", frame |-> photo.data]
                        ELSE IF Len(photo.data) = 0 THEN Raise("ValueError")
                        ELSE IF exposure_values[i] = PyNone THEN Raise("TypeError")
                        ELSE apply_exposure(photo.data, exposure_values[i])
                    framed ==
                        apply_frame([photo EXCEPT !.data = adjusted.frame],
                                    frame_paths_list[i])
                IN  IF adjusted.status # "ok"
                    THEN /\ ComposeFail(adjusted.status)
                         /\ UNCHANGED <<framed_photos, args>>
                    ELSE IF framed.status # "ok"
                    THEN /\ ComposeFail(framed.status)
                         /\ UNCHANGED <<framed_photos, args>>
                    ELSE /\ framed_photos' = Append(framed_photos, framed.image)
                         /\ args' = [args EXCEPT !.photos[i].data = adjusted.frame]
                         /\ UNCHANGED <<pc, result>>
    /\ UNCHANGED <<op, photo_bytes_list, exposure_values, frame_paths_list, grid,
                   resized_photos, photostrip, fitVars, expVars, standaloneVars>>

\* lines 67-75, one iteration of the loop over zip(photos, frame_paths_list)
compose_frame_unit ==
    /\ op = "compose_photostrip" /\ pc = "frame_loop"
    /\ LET i == Len(framed_photos) + 1
       IN  IF i > Min(num_photos, Len(frame_paths_list))
           THEN /\ pc' = "layout"
                /\ UNCHANGED <<framed_photos, result>>
           ELSE LET photo == args.photos[i]
                    adjusted ==
                        IF exposure_values[i] = 0
                        THEN [status |-> "ok", frame |-> photo.data]
                        ELSE IF Len(photo.data) = 0 THEN Raise("ValueError")
                        ELSE IF exposure_values[i] = PyNone THEN Raise("TypeError")
                        ELSE apply_exposure(photo.data, exposure_values[i])
                    framed ==
                        apply_frame([photo EXCEPT !.data = adjusted.frame],
                                    frame_paths_list[i])
                IN  IF adjusted.status # "ok"
                    THEN /\ ComposeFail(adjusted.status)
                         /\ UNCHANGED framed_photos
                    ELSE IF framed.status # "ok"
                    THEN /\ ComposeFail(framed.status)
                         /\ UNCHANGED framed_photos
                    ELSE /\ framed_photos' = Append(framed_photos, framed.image)
                         /\ UNCHANGED <<pc, result>>
    /\ UNCHANGED <<op, args, photo_bytes_list, exposure_values, frame_paths_list, grid,
                   resized_photos, photostrip, fitVars, expVars, standaloneVars>>

\* lines 77-98
compose_layout ==
    /\ op = "compose_photostrip" /\ pc = "layout"
    /\ grid' = ComposeGrid(num_photos, args.target_size[1], args.target_size[2],
                           args.border_width)
    /\ pc' = "resize_loop"
    /\ UNCHANGED <<op, args, photo_bytes_list, exposure_values, frame_paths_list, framed_photos,
                   resized_photos, photostrip, result, fitVars, expVars, standaloneVars>>

\* lines 100-104, one iteration
compose_resize_unit ==
    /\ op = "compose_photostrip" /\ pc = "resize_loop"
    /\ LET i == Len(resized_photos) + 1
       IN  IF i > Len(framed_photos)
           THEN /\ pc' = "new_canvas"
                /\ UNCHANGED <<resized_photos, result>>
           ELSE IF ResizeFails(grid.photo_width, grid.photo_height)
           THEN /\ ComposeFail("ValueError")
                /\ UNCHANGED resized_photos
           ELSE /\ resized_photos' = Append(resized_photos,
                        [framed_photos[i] EXCEPT !.w = grid.photo_width,
                                                 !.h = grid.photo_height])
                /\ UNCHANGED <<pc, result>>
    /\ UNCHANGED <<op, args, photo_bytes_list, exposure_values, frame_paths_list, framed_photos,
                   grid, photostrip, fitVars, expVars, standaloneVars>>

\* Variant that sizes the canvas from the cells instead of target_size.
compose_new_canvas_from_cells ==
    /\ op = "compose_photostrip" /\ pc = "new_canvas"
    /\ photostrip' =
           [w |-> (grid.photo_width * grid.cols)
                     + (args.border_width * (grid.cols + 1)),
            h |-> (grid.photo_height * grid.rows)
                     + (args.border_width * (grid.rows + 1)),
            cells |-> <<>>]
    /\ pc' = "paste_loop"
    /\ UNCHANGED <<op, args, photo_bytes_list, exposure_values,
                   frame_paths_list, framed_photos,
                   grid, resized_photos, result, fitVars, expVars, standaloneVars>>

\* line 107
compose_new_canvas ==
    /\ op = "compose_photostrip" /\ pc = "new_canvas"
    /\ photostrip' = [w |-> args.target_size[1], h |-> args.target_size[2],
                      cells |-> <<>>]
    /\ pc' = "paste_loop"
    /\ UNCHANGED <<op, args, photo_bytes_list, exposure_values, frame_paths_list, framed_photos,
                   grid, resized_photos, result, fitVars, expVars, standaloneVars>>

\* lines 110-118, one iteration
compose_paste_unit ==
    /\ op = "compose_photostrip" /\ pc = "paste_loop"
    /\ LET i == Len(photostrip.cells)
       IN  IF i >= Len(resized_photos)
           THEN /\ pc' = "return"
                /\ UNCHANGED photostrip
           ELSE /\ photostrip' = [photostrip EXCEPT !.cells =
                        Append(@, PasteCell(i, resized_photos[i + 1], grid,
                                            args.border_width))]
                /\ UNCHANGED pc
    /\ UNCHANGED <<op, args, photo_bytes_list, exposure_values, frame_paths_list, framed_photos,
                   grid, resized_photos, result, fitVars, expVars, standaloneVars>>

\* line 120
compose_return ==
    /\ op = "compose_photostrip" /\ pc = "return"
    /\ result' = [status |-> "ok", image |-> photostrip]
    /\ pc' = "done"
    /\ UNCHANGED <<op, args, photo_bytes_list, exposure_values, frame_paths_list, framed_photos,
                   grid, resized_photos, photostrip, fitVars, expVars, standaloneVars>>

(***************************************************************************)
(* Web API (src/api/routes/composition.py): the POST compose route and     *)
(* stitch_photostrip_from_bytes.  A request photo is a base64 string       *)
(* (b64_ok: it decodes) of image bytes (valid: PIL can open them).         *)
(***************************************************************************)
DefaultGap == 10

\* ImageEnhance.Brightness(img).enhance(factor): Image.blend of a black image
\* and img, which truncates to an integer and clips at 255.
EnhanceBrightness(s, alpha) ==
    Min(255, (s * alpha) \div Pow2(FixedPointBits))

\* apply_exposure_to_image, lines 54-90: the enhancer scales every pixel of
\* the decoded image, those of the photo and those of the frame drawn on it.
apply_exposure_to_image(image_bytes, exposure_value) ==
    LET clamped == ClampExposure(exposure_value)
    IN  IF ~image_bytes.valid THEN Raise("UnidentifiedImageError")
        ELSE IF clamped = 0 THEN [status |-> "ok", bytes |-> image_bytes]
        ELSE [status |-> "ok",
              bytes |-> [image_bytes EXCEPT
                  !.data = [i \in DOMAIN @ |->
                      EnhanceBrightness(@[i], ExposureAlpha(clamped))],
                  !.frame_data = [i \in DOMAIN @ |->
                      EnhanceBrightness(@[i], ExposureAlpha(clamped))]]]

\* lines 321-324: the route's exposure_values, one entry per photo
RouteExposure(given, photo_count) ==
    LET values == IF given.is_none \/ Len(given.list) = 0
                  THEN [i \in 1..photo_count |-> 0] ELSE given.list
    IN  IF Len(values) # photo_count
        THEN [i \in 1..photo_count |->
                 IF i <= Len(values) THEN values[i] ELSE 0]
        ELSE values

\* lines 385-391 and 404-408: grid and cell size of the A6 canvas
StitchGrid(photo_count, border) ==
    LET grid_cols == IF photo_count = 4 THEN 1 ELSE 3
        grid_rows == IF photo_count = 4 THEN 4 ELSE 3
        available_width == A6Width - (border * (grid_cols + 1))
        available_height == A6Height - (border * (grid_rows + 1))
    IN  [cols |-> grid_cols, rows |-> grid_rows,
         photo_width |-> available_width \div grid_cols,
         photo_height |-> available_height \div grid_rows]

\* lines 420-428: where the photo with the given index is pasted
StitchCell(index, resized_photo, g, border) ==
    LET col == index % g.cols
        row == index \div g.cols
    IN  [unit |-> resized_photo.unit,
         x |-> border + (col * (g.photo_width + border)),
         y |-> border + (row * (g.photo_height + border)),
         w |-> resized_photo.w, h |-> resized_photo.h]

\* The gap argument of stitch_photostrip_from_bytes: the route passes none.
gap == IF op = "route" THEN DefaultGap ELSE args.border_width

\* An exception leaving stitch_photostrip_from_bytes: the route turns it
\* into a 500 response (lines 342-348).
StitchFail(exc) ==
    /\ result' = IF op = "route" THEN Raise("HTTP_500") ELSE Raise(exc)
    /\ pc' = "done"

\* lines 313-324
route_validate ==
    /\ op = "route" /\ pc = "route_validate"
    /\ IF num_photos \notin {4, 9}
       THEN /\ result' = Raise("HTTP_400")
            /\ pc' = "done"
            /\ UNCHANGED exposure_values
       ELSE /\ exposure_values' = RouteExposure(args.exposure_values, num_photos)
            /\ pc' = "route_decode"
            /\ UNCHANGED result
    /\ UNCHANGED <<op, args, frame_paths_list, photo_bytes_list, framed_photos,
                   grid, resized_photos, photostrip, fitVars, expVars, standaloneVars>>

\* lines 329-339, one iteration
route_decode_unit ==
    /\ op = "route" /\ pc = "route_decode"
    /\ LET i == Len(photo_bytes_list) + 1
       IN  IF i > num_photos
           THEN /\ pc' = "stitch_check"
                /\ UNCHANGED <<photo_bytes_list, result>>
           ELSE LET photo == args.photos[i]
                    adjusted ==
                        IF ~photo.b64_ok THEN Raise("binascii.Error")
                        ELSE IF exposure_values[i] # 0
                        THEN apply_exposure_to_image(photo, exposure_values[i])
                        ELSE [status |-> "ok", bytes |-> photo]
                IN  IF adjusted.status # "ok"
                    THEN /\ result' = Raise("HTTP_400")
                         /\ pc' = "done"
                         /\ UNCHANGED photo_bytes_list
                    ELSE /\ photo_bytes_list' =
                                Append(photo_bytes_list, adjusted.bytes)
                         /\ UNCHANGED <<pc, result>>
    /\ UNCHANGED <<op, args, exposure_values, frame_paths_list, framed_photos,
                   grid, resized_photos, photostrip, fitVars, expVars, standaloneVars>>

\* lines 376-391
stitch_check ==
    /\ op \in {"stitch", "route"} /\ pc = "stitch_check"
    /\ IF Len(photo_bytes_list) \notin {4, 9}
       THEN StitchFail("ValueError")
       ELSE /\ pc' = "stitch_load"
            /\ UNCHANGED result
    /\ UNCHANGED <<op, args, exposure_values, frame_paths_list,
                   photo_bytes_list, framed_photos, grid, resized_photos,
                   photostrip, fitVars, expVars, standaloneVars>>

\* lines 394-400, one iteration
stitch_load_unit ==
    /\ op \in {"stitch", "route"} /\ pc = "stitch_load"
    /\ LET i == Len(framed_photos) + 1
       IN  IF i > Len(photo_bytes_list)
           THEN /\ pc' = "stitch_layout"
                /\ UNCHANGED <<framed_photos, result>>
           ELSE IF ~photo_bytes_list[i].valid
           THEN /\ StitchFail("UnidentifiedImageError")
                /\ UNCHANGED framed_photos
           ELSE /\ framed_photos' = Append(framed_photos,
                        [unit |-> photo_bytes_list[i].unit,
                         w |-> photo_bytes_list[i].w,
                         h |-> photo_bytes_list[i].h,
                         mode |-> "RGB",
                         data |-> photo_bytes_list[i].data,
                         frame_data |-> photo_bytes_list[i].frame_data])
                /\ UNCHANGED <<pc, result>>
    /\ UNCHANGED <<op, args, exposure_values, frame_paths_list,
                   photo_bytes_list, grid, resized_photos, photostrip,
                   fitVars, expVars, standaloneVars>>

\* lines 402-408
stitch_layout ==
    /\ op \in {"stitch", "route"} /\ pc = "stitch_layout"
    /\ grid' = StitchGrid(Len(photo_bytes_list), gap)
    /\ pc' = "stitch_resize"
    /\ UNCHANGED <<op, args, exposure_values, frame_paths_list,
                   photo_bytes_list, framed_photos, resized_photos,
                   photostrip, result, fitVars, expVars, standaloneVars>>

\* lines 410-414, one iteration
stitch_resize_unit ==
    /\ op \in {"stitch", "route"} /\ pc = "stitch_resize"
    /\ LET i == Len(resized_photos) + 1
       IN  IF i > Len(framed_photos)
           THEN /\ pc' = "stitch_new_canvas"
                /\ UNCHANGED <<resized_photos, result>>
           ELSE IF ResizeFails(grid.photo_width, grid.photo_height)
           THEN /\ StitchFail("ValueError")
                /\ UNCHANGED resized_photos
           ELSE /\ resized_photos' = Append(resized_photos,
                        [framed_photos[i] EXCEPT !.w = grid.photo_width,
                                                 !.h = grid.photo_height])
                /\ UNCHANGED <<pc, result>>
    /\ UNCHANGED <<op, args, exposure_values, frame_paths_list,
                   photo_bytes_list, framed_photos, grid, photostrip,
                   fitVars, expVars, standaloneVars>>

\* line 417
stitch_new_canvas ==
    /\ op \in {"stitch", "route"} /\ pc = "stitch_new_canvas"
    /\ photostrip' = [w |-> A6Width, h |-> A6Height, cells |-> <<>>]
    /\ pc' = "stitch_paste"
    /\ UNCHANGED <<op, args, exposure_values, frame_paths_list,
                   photo_bytes_list, framed_photos, grid, resized_photos,
                   result, fitVars, expVars, standaloneVars>>

\* lines 420-428, one iteration
stitch_paste_unit ==
    /\ op \in {"stitch", "route"} /\ pc = "stitch_paste"
    /\ LET index == Len(photostrip.cells)
       IN  IF index >= Len(resized_photos)
           THEN /\ pc' = "stitch_return"
                /\ UNCHANGED photostrip
           ELSE /\ photostrip' = [photostrip EXCEPT !.cells =
                        Append(@, StitchCell(index, resized_photos[index + 1],
                                             grid, gap))]
                /\ UNCHANGED pc
    /\ UNCHANGED <<op, args, exposure_values, frame_paths_list,
                   photo_bytes_list, framed_photos, grid, resized_photos,
                   result, fitVars, expVars, standaloneVars>>

\* lines 430-433, and lines 350-357 of the route
stitch_return ==
    /\ op \in {"stitch", "route"} /\ pc = "stitch_return"
    /\ result' = [status |-> "ok", image |-> photostrip]
    /\ pc' = "done"
    /\ UNCHANGED <<op, args, exposure_values, frame_paths_list,
                   photo_bytes_list, framed_photos, grid, resized_photos,
                   photostrip, fitVars, expVars, standaloneVars>>

(***************************************************************************)
(* Callers: the arguments a composition entry point is called with.        *)
(***************************************************************************)
PhotoCounts == {0, 4, 5, 9}
PhotoKinds == {"landscape", "portrait", "tiny", "empty"}

\* A captured photo (numpy array); unit is its position in the caller's list.
Photo(unit, kind) ==
    [unit |-> unit,
     w |-> CASE kind = "landscape" -> 4 [] kind = "portrait" -> 3
             [] kind = "tiny" -> 1 [] OTHER -> 0,
     h |-> CASE kind = "landscape" -> 3 [] kind = "portrait" -> 4
             [] kind = "tiny" -> 1 [] OTHER -> 0,
     data |-> CASE kind = "landscape" -> <<100>> [] kind = "portrait" -> <<200>>
                [] kind = "tiny" -> <<7>> [] OTHER -> <<>>]

PhotoLists(n) ==
    {[i \in 1..n |-> Photo(i, IF i = j THEN odd ELSE "landscape")] :
        odd \in PhotoKinds, j \in {1, n}}

FramePathArgs(n) ==
    {[is_str |-> TRUE, path |-> path] : path \in {FrameSimple, FrameMissing}}
    \cup
    {[is_str |-> FALSE, list |-> list] : list \in
        { [i \in 1..n |-> FrameSimple],
          [i \in 1..(n - 1) |-> FrameSimple],
          <<FrameSimple>>,
          <<>>,
          [i \in 1..n |-> IF i = n THEN FrameMissing ELSE FrameSimple],
          [i \in 1..n |-> IF i = 1 THEN FrameLarge ELSE FrameSimple] }}

MixedExposure == <<10, 0, -5, -10>>
ExposureLists(n) ==
    { [i \in 1..n |-> MixedExposure[((i - 1) % 4) + 1]],
      [i \in 1..(n + 1) |-> MixedExposure[((i - 1) % 4) + 1]],
      <<10>> }
ExposureArgs(n) ==
    {[is_none |-> TRUE]}
    \cup {[is_none |-> FALSE, list |-> list] :
             list \in ExposureLists(n) \cup {<<50, PyNone>>}}

CanvasArgs ==
    {[target_size |-> <<A6Width, A6Height>>, border_width |-> DefaultBorder]}
    \cup {[target_size |-> <<10, 14>>, border_width |-> b] :
             b \in (0..MaxBorder) \cup {DefaultBorder}}

\* A request photo of the web API: the response of the capture endpoint
\* (api/routes/camera.py, lines 166-179), a photo with its frame drawn on it.
ApiPhotoKinds == {"landscape", "portrait", "bad_base64", "bad_image"}
ApiPhoto(unit, kind) ==
    [unit |-> unit,
     b64_ok |-> kind # "bad_base64",
     valid |-> kind \in {"landscape", "portrait"},
     w |-> IF kind = "portrait" THEN 3 ELSE 4,
     h |-> IF kind = "portrait" THEN 4 ELSE 3,
     data |-> IF kind = "portrait" THEN <<200>> ELSE <<100>>,
     frame_data |-> FramePixels(FrameSimple)]

ApiPhotoLists(n) ==
    {[i \in 1..n |-> ApiPhoto(i, IF i = j THEN odd ELSE "landscape")] :
        odd \in ApiPhotoKinds, j \in {1, n}}

Gaps == (0..MaxBorder) \cup {DefaultGap, 350}

IdleArgs == [photos |-> <<>>]

ComposeInit ==
    /\ op = "none"
    /\ pc = "idle"
    /\ args = IdleArgs
    /\ ComposeLocalsReset

call_compose_photostrip ==
    /\ op = "none"
    /\ \E n \in PhotoCounts :
       \E photos \in PhotoLists(n), frame_paths \in FramePathArgs(n),
          exposure \in ExposureArgs(n), canvas \in CanvasArgs :
           args' = [photos |-> photos, frame_paths |-> frame_paths,
                    exposure_values |-> exposure,
                    target_size |-> canvas.target_size,
                    border_width |-> canvas.border_width]
    /\ op' = "compose_photostrip"
    /\ pc' = "check_photos"
    /\ result' = NoResult
    /\ UNCHANGED <<exposure_values, frame_paths_list, photo_bytes_list,
                   framed_photos, grid, resized_photos, photostrip,
                   fitVars, expVars, standaloneVars>>

call_stitch_photostrip_from_bytes ==
    /\ op = "none"
    /\ \E n \in PhotoCounts :
       \E photos \in ApiPhotoLists(n), g \in Gaps :
           /\ args' = [photos |-> photos, border_width |-> g]
           /\ photo_bytes_list' = photos
    /\ op' = "stitch"
    /\ pc' = "stitch_check"
    /\ result' = NoResult
    /\ UNCHANGED <<exposure_values, frame_paths_list, framed_photos, grid,
                   resized_photos, photostrip, fitVars, expVars, standaloneVars>>

call_route ==
    /\ op = "none"
    /\ \E n \in PhotoCounts :
       \E photos \in ApiPhotoLists(n),
          exposure \in {[is_none |-> TRUE], [is_none |-> FALSE, list |-> <<>>]}
                       \cup {[is_none |-> FALSE, list |-> list] :
                                list \in ExposureLists(n)} :
           args' = [photos |-> photos, exposure_values |-> exposure]
    /\ op' = "route"
    /\ pc' = "route_validate"
    /\ result' = NoResult
    /\ UNCHANGED <<exposure_values, frame_paths_list, photo_bytes_list,
                   framed_photos, grid, resized_photos, photostrip,
                   fitVars, expVars, standaloneVars>>

\* apply_frame called on its own, as the tests and the capture page do.
call_apply_frame ==
    /\ op = "none"
    /\ \E kind \in PhotoKinds,
          frame_path \in {FrameSimple, FrameLarge, FrameMissing} :
           /\ args' = [photos |-> <<Photo(1, kind)>>, frame_path |-> frame_path]
           /\ result' = apply_frame(Photo(1, kind), frame_path)
    /\ op' = "apply_frame"
    /\ pc' = "done"
    /\ UNCHANGED <<exposure_values, frame_paths_list, photo_bytes_list,
                   framed_photos, grid, resized_photos, photostrip,
                   fitVars, expVars, standaloneVars>>

\* The caller has received the result or the exception (and holds it); the
\* locals of the call are gone.
call_returns ==
    /\ op # "none" /\ pc = "done"
    /\ op' = "none"
    /\ pc' = "idle"
    /\ args' = IdleArgs
    /\ exposure_values' = <<>>
    /\ frame_paths_list' = <<>>
    /\ photo_bytes_list' = <<>>
    /\ framed_photos' = <<>>
    /\ grid' = NoGrid
    /\ resized_photos' = <<>>
    /\ photostrip' = NoCanvas
    /\ UNCHANGED <<result, fitVars, expVars, standaloneVars>>

(***************************************************************************)
(* Opacity mask of the frame layer (apply_frame, lines 186-252).  The      *)
(* cropped frame is a raster of w x h RGBA pixels stored row by row: the   *)
(* pixel (x, y), counted from 0, is element y * w + x + 1 of `pixels`.     *)
(***************************************************************************)
DarkThreshold == 80
AlphaThreshold == 128

\* The largest number of pixels of a cropped frame.
MaxMaskPixels == 6

PixelX(p, w) == (p - 1) % w
PixelY(p, w) == (p - 1) \div w

\* lines 187-198: the pixels whose mean of R, G and B is below the threshold
dark_mask(frame) ==
    {p \in DOMAIN frame.pixels :
        frame.pixels[p].r + frame.pixels[p].g + frame.pixels[p].b
            < 3 * DarkThreshold}

\* The default structuring element of ndimage.label joins a pixel with its
\* four edge neighbours.
Adjacent(p, q, w) ==
    Abs(PixelX(p, w) - PixelX(q, w)) + Abs(PixelY(p, w) - PixelY(q, w)) = 1

RECURSIVE Grow(_, _, _)
Grow(region, mask, w) ==
    LET next == region \cup
                    {q \in mask : \E p \in region : Adjacent(p, q, w)}
    IN  IF next = region THEN region ELSE Grow(next, mask, w)

\* line 202, ndimage.label: the features of the mask.  A feature's label is
\* its rank in the raster order of the features' first pixels.
Features(mask, w) == {Grow({p}, mask, w) : p \in mask}

FirstPixel(feature) == CHOOSE m \in feature : \A n \in feature : m <= n

\* Variant that takes the feature met first in raster order.
largest_region_first(mask, w) ==
    CHOOSE f \in Features(mask, w) :
        \A g \in Features(mask, w) : FirstPixel(f) <= FirstPixel(g)

\* lines 206-210: the feature with the most pixels; of several, argmax takes
\* the one with the lowest label.
largest_region(mask, w) ==
    CHOOSE f \in Features(mask, w) :
        \A g \in Features(mask, w) :
            \/ Cardinality(f) > Cardinality(g)
            \/ /\ Cardinality(f) = Cardinality(g)
               /\ FirstPixel(f) <= FirstPixel(g)

\* lines 213-222: sqrt(dx^2 + dy^2) < min(h, w) * 0.6, squared and
\* multiplied by 25.
center_proximity_mask(frame) ==
    LET center_y == frame.h \div 2
        center_x == frame.w \div 2
        max_distance_5 == 3 * Min(frame.h, frame.w)
    IN  {p \in DOMAIN frame.pixels :
            25 * (((PixelX(p, frame.w) - center_x)
                      * (PixelX(p, frame.w) - center_x))
                  + ((PixelY(p, frame.w) - center_y)
                      * (PixelY(p, frame.w) - center_y)))
                < max_distance_5 * max_distance_5}

\* Variant that also falls back when the selected dark region has no pixel
\* near the centre.
resolve_mask_fallback_when_far(frame) ==
    LET final_dark_mask ==
            IF dark_mask(frame) = {} THEN {}
            ELSE largest_region(dark_mask(frame), frame.w)
                     \cap center_proximity_mask(frame)
    IN  IF final_dark_mask # {}
        THEN [status |-> "ok", reported |-> "nothing", branch |-> "dark_region",
              pixels |-> [p \in DOMAIN frame.pixels |->
                  [frame.pixels[p] EXCEPT
                      !.a = IF p \in final_dark_mask THEN 0 ELSE 255]]]
        ELSE [status |-> "ok", reported |-> "nothing",
              branch |-> "alpha_threshold",
              pixels |-> [p \in DOMAIN frame.pixels |->
                  IF frame.pixels[p].a < AlphaThreshold
                  THEN [r |-> 255, g |-> 255, b |-> 255, a |-> 0]
                  ELSE [frame.pixels[p] EXCEPT !.a = 255]]]

\* lines 186-252 of apply_frame: the frame layer that is pasted over the
\* photo.  Nothing but the layer leaves this block: no exception, no log
\* line and no flag tells which branch was taken (reported); branch records
\* which block ran, lines 204-236 (dark_region) or 237-252 (alpha_threshold).
resolve_mask(frame) ==
    IF dark_mask(frame) # {}
    THEN LET final_dark_mask ==
                 largest_region(dark_mask(frame), frame.w)
                     \cap center_proximity_mask(frame)
         IN  [status |-> "ok", reported |-> "nothing", branch |-> "dark_region",
              pixels |-> [p \in DOMAIN frame.pixels |->
                  [frame.pixels[p] EXCEPT
                      !.a = IF p \in final_dark_mask THEN 0 ELSE 255]]]
    ELSE [status |-> "ok", reported |-> "nothing",
          branch |-> "alpha_threshold",
          pixels |-> [p \in DOMAIN frame.pixels |->
              IF frame.pixels[p].a < AlphaThreshold
              THEN [r |-> 255, g |-> 255, b |-> 255, a |-> 0]
              ELSE [frame.pixels[p] EXCEPT !.a = 255]]]

\* apply_frame_to_photo_pil (api/routes/composition.py): line 129 reads the
\* name Image, which the module never imports and the function never binds.
apply_frame_to_photo_pil(photo_pil, frame_pil) == Raise("NameError")

\* apply_frame_from_bytes (api/routes/camera.py, lines 61-96): the cropped
\* frame is composited with the alpha channel it came with.
apply_frame_from_bytes(frame) ==
    [status |-> "ok", reported |-> "nothing", pixels |-> frame.pixels]

\* Pixels of a frame asset: black, dark and translucent, mid-gray with alpha
\* at the threshold, and a gray just not dark with alpha below the threshold.
Black == [r |-> 0, g |-> 0, b |-> 0, a |-> 255]
DarkSoft == [r |-> 79, g |-> 80, b |-> 80, a |-> 100]
MidGray == [r |-> 128, g |-> 128, b |-> 128, a |-> 128]
GraySoft == [r |-> 80, g |-> 80, b |-> 80, a |-> 127]
FramePalette == {Black, DarkSoft, MidGray, GraySoft}

MaskSizes ==
    {s \in (1..MaxMaskPixels) \X (1..MaxMaskPixels) :
        s[1] * s[2] <= MaxMaskPixels}

MaskFrames ==
    UNION {{[w |-> s[1], h |-> s[2], pixels |-> pixels] :
               pixels \in [1..(s[1] * s[2]) -> FramePalette]} :
           s \in MaskSizes}

MaskIdle ==
    /\ mask_in = NoOutput
    /\ mask_out = NoOutput

(***************************************************************************)
(* TemplateStorage (src/src/template_storage.py).  A string is modelled as *)
(* the sequence of its characters; a template is a record of its name,     *)
(* its four frame paths and its created stamp; the templates directory is  *)
(* the function `files` from the stem of a JSON file to its content.       *)
(***************************************************************************)
LowerCase == ("M" :> "m") @@ ("Y" :> "y")
SafeChars ==
    {"a", "b", "c", "d", "e", "f", "g", "h", "i", "j", "k", "l", "m", "n",
     "o", "p", "q", "r", "s", "t", "u", "v", "w", "x", "y", "z",
     "0", "1", "2", "3", "4", "5", "6", "7", "8", "9"}

\* line 120, str.lower
Lower(name) ==
    [i \in DOMAIN name |->
        IF name[i] \in DOMAIN LowerCase THEN LowerCase[name[i]] ELSE name[i]]

RECURSIVE DropUnsafe(_)
DropUnsafe(s) ==
    IF s = <<>> \/ Head(s) \in SafeChars THEN s ELSE DropUnsafe(Tail(s))

\* line 123, re.sub(r'[^a-z0-9]+', '_', safe): every run of other
\* characters becomes one underscore
RECURSIVE ReplaceUnsafe(_)
ReplaceUnsafe(s) ==
    IF s = <<>> THEN <<>>
    ELSE IF Head(s) \in SafeChars
    THEN <<Head(s)>> \o ReplaceUnsafe(Tail(s))
    ELSE <<"_">> \o ReplaceUnsafe(DropUnsafe(Tail(s)))

\* line 126, str.strip('_')
RECURSIVE StripLeft(_)
StripLeft(s) ==
    IF s # <<>> /\ Head(s) = "_" THEN StripLeft(Tail(s)) ELSE s

RECURSIVE StripRight(_)
StripRight(s) ==
    IF s # <<>> /\ s[Len(s)] = "_"
    THEN StripRight(SubSeq(s, 1, Len(s) - 1)) ELSE s

\* _make_safe_filename, lines 109-128
make_safe_filename(name) ==
    StripRight(StripLeft(ReplaceUnsafe(Lower(name))))

\* The content json.dump writes for a template (lines 51-59), and the
\* content of a file that json.load or Template() rejects.
TemplateDict(template) ==
    [valid |-> TRUE, name |-> template.name,
     frame_paths |-> template.frame_paths, created |-> template.created]
Corrupted == [valid |-> FALSE]

\* Created stamps in ascending order of the string comparison that
\* load_all sorts by.
CreatedStamps == <<"2024-01-01T00:00:00", "2024-01-15T10:30:00">>
CreatedRank(created) ==
    CHOOSE i \in DOMAIN CreatedStamps : CreatedStamps[i] = created

TemplateNames ==
    { <<"M", "y">>, <<"m", "y">>, <<"_", "m", "y", "_">>,
      <<"m", " ", "y">>, <<"m", "-", "-", "y">>, <<"!">> }
FramePathLists ==
    { <<"frame_simple.png", "frame_kawaii.png",
        "frame_classic.png", "frame_simple.png">>,
      <<"frame_kawaii.png", "frame_simple.png",
        "frame_classic.png", "frame_simple.png">> }
Templates ==
    [name : TemplateNames, frame_paths : FramePathLists,
     created : {CreatedStamps[i] : i \in DOMAIN CreatedStamps}]

NoCall == [op |-> "none"]
NotLoaded == [loaded |-> FALSE]

StoreIdle ==
    /\ files = <<>>
    /\ store_call = NoCall
    /\ loaded = NotLoaded

\* save, lines 35-61
save(template) ==
    /\ files' = [stem \in DOMAIN files \cup {make_safe_filename(template.name)}
                    |-> IF stem = make_safe_filename(template.name)
                        THEN TemplateDict(template) ELSE files[stem]]
    /\ store_call' = [op |-> "save", template |-> template]
    /\ loaded' = NotLoaded
    /\ UNCHANGED <<fitVars, expVars, composeVars, maskVars, loginVars,
                 captureVars>>

\* Variant that looks for a file called by the name as it was given.
delete_raw_name(template) ==
    /\ files' = [stem \in DOMAIN files \ {template.name} |-> files[stem]]
    /\ store_call' = [op |-> "delete", template |-> template]
    /\ loaded' = NotLoaded
    /\ UNCHANGED <<fitVars, expVars, composeVars, maskVars, loginVars,
                 captureVars>>

\* delete, lines 93-107
delete(template) ==
    /\ files' = [stem \in DOMAIN files \ {make_safe_filename(template.name)}
                    |-> files[stem]]
    /\ store_call' = [op |-> "delete", template |-> template]
    /\ loaded' = NotLoaded
    /\ UNCHANGED <<fitVars, expVars, composeVars, maskVars, loginVars,
                 captureVars>>

\* The lists that a stable sort by created, newest first, can make of the
\* templates read in the order glob yields the files.
SortedLoads(stems) ==
    {list \in [1..Cardinality(stems) -> stems] :
        /\ \A i, j \in DOMAIN list : i # j => list[i] # list[j]
        /\ \A i, j \in DOMAIN list :
              i < j => CreatedRank(files[list[i]].created)
                           >= CreatedRank(files[list[j]].created)}

\* load_all, lines 63-91
load_all ==
    /\ loaded = NotLoaded
    /\ \E list \in SortedLoads({stem \in DOMAIN files : files[stem].valid}) :
           loaded' = [loaded |-> TRUE,
                      templates |-> [i \in DOMAIN list |->
                          [name |-> files[list[i]].name,
                           frame_paths |-> files[list[i]].frame_paths,
                           created |-> files[list[i]].created]]]
    /\ UNCHANGED <<files, store_call>>
    /\ UNCHANGED <<fitVars, expVars, composeVars, maskVars, loginVars,
                 captureVars>>

(***************************************************************************)
(* LoginPage (src/src/pages/login.py).  The PIN is a sequence of digits;   *)
(* the text of the error label is the message it was set to, with the      *)
(* attempt numbers formatted into it.                                      *)
(***************************************************************************)
\* The PIN the page was constructed with, and the keypad digits pressed.
correct_pin == <<1, 2>>
Digits == {1, 2}

max_attempts == 5
PinMaxLength == 6

\* The largest number of failed attempts, and of pending timers of one kind,
\* that are followed.
MaxFailed == 6
MaxTimers == 1

NoText == [message |-> ""]
IncorrectText(attempt) ==
    [message |-> "Incorrect PIN. Attempt {}/{}",
     attempt |-> attempt, of |-> max_attempts]
MaximumText ==
    [message |-> "Maximum attempts reached. Please try again later."]

LoginInit ==
    /\ pin_input = [text |-> <<>>, enabled |-> TRUE]
    /\ error_label = [text |-> NoText, visible |-> FALSE]
    /\ is_authenticated = FALSE
    /\ failed_attempts = 0
    /\ timers = [verify_pin |-> 0, clear_input |-> 0]
    /\ last_verify = [called |-> FALSE]

Schedule(pending, callback) ==
    [pending EXCEPT ![callback] = Min(@ + 1, MaxTimers)]

\* pin_input.setText(text) with the slot _on_text_changed (lines 213-221)
\* run on the timers `pending`
SetText(text, pending) ==
    /\ pin_input' = [pin_input EXCEPT !.text = text]
    /\ timers' = IF text # pin_input.text /\ Len(text) = Len(correct_pin)
                 THEN Schedule(pending, "verify_pin") ELSE pending

\* append_digit, lines 202-211: a keypad button is clicked
append_digit ==
    /\ \E digit \in Digits :
          IF Len(pin_input.text) < PinMaxLength
          THEN /\ SetText(Append(pin_input.text, digit), timers)
               /\ error_label' = [error_label EXCEPT !.visible = FALSE]
          ELSE UNCHANGED <<pin_input, timers, error_label>>
    /\ UNCHANGED <<is_authenticated, failed_attempts, last_verify>>
    /\ UNCHANGED <<fitVars, expVars, composeVars, maskVars, storeVars,
                 captureVars>>

\* clear_input, lines 235-238, run on the timers `pending`
ClearInput(pending) ==
    /\ SetText(<<>>, pending)
    /\ error_label' = [error_label EXCEPT !.visible = FALSE]

\* the C button or showEvent (lines 240-244)
clear_input ==
    /\ ClearInput(timers)
    /\ UNCHANGED <<is_authenticated, failed_attempts, last_verify>>
    /\ UNCHANGED <<fitVars, expVars, composeVars, maskVars, storeVars,
                 captureVars>>

\* the timer of line 269 fires
clear_input_timeout ==
    /\ timers.clear_input > 0
    /\ ClearInput([timers EXCEPT !.clear_input = @ - 1])
    /\ UNCHANGED <<is_authenticated, failed_attempts, last_verify>>
    /\ UNCHANGED <<fitVars, expVars, composeVars, maskVars, storeVars,
                 captureVars>>

\* Variant in which a wrong PIN leaves the authenticated flag as it is.
verify_pin_sticky(pending) ==
    /\ last_verify' = [called |-> TRUE, entered_pin |-> pin_input.text]
    /\ IF pin_input.text = correct_pin
       THEN /\ is_authenticated' = TRUE
            /\ error_label' = [error_label EXCEPT !.visible = FALSE]
            /\ timers' = pending
            /\ UNCHANGED <<failed_attempts, pin_input>>
       ELSE /\ failed_attempts < MaxFailed
            /\ UNCHANGED is_authenticated
            /\ failed_attempts' = failed_attempts + 1
            /\ error_label' =
                  [text |-> IF failed_attempts + 1 >= max_attempts
                            THEN MaximumText
                            ELSE IncorrectText(failed_attempts + 1),
                   visible |-> TRUE]
            /\ timers' = Schedule(pending, "clear_input")
            /\ pin_input' =
                  [pin_input EXCEPT !.enabled =
                      IF failed_attempts + 1 >= max_attempts
                      THEN FALSE ELSE @]

\* verify_pin, lines 246-274, run on the timers `pending`
verify_pin(pending) ==
    /\ last_verify' = [called |-> TRUE, entered_pin |-> pin_input.text]
    /\ IF pin_input.text = correct_pin
       THEN /\ is_authenticated' = TRUE
            /\ error_label' = [error_label EXCEPT !.visible = FALSE]
            /\ timers' = pending
            /\ UNCHANGED <<failed_attempts, pin_input>>
       ELSE /\ failed_attempts < MaxFailed
            /\ is_authenticated' = FALSE
            /\ failed_attempts' = failed_attempts + 1
            /\ error_label' =
                  [text |-> IF failed_attempts + 1 >= max_attempts
                            THEN MaximumText
                            ELSE IncorrectText(failed_attempts + 1),
                   visible |-> TRUE]
            /\ timers' = Schedule(pending, "clear_input")
            /\ pin_input' =
                  [pin_input EXCEPT !.enabled =
                      IF failed_attempts + 1 >= max_attempts
                      THEN FALSE ELSE @]

\* the Enter button of the keypad is clicked (line 119)
enter_button_clicked ==
    /\ verify_pin(timers)
    /\ UNCHANGED <<fitVars, expVars, composeVars, maskVars, storeVars,
                 captureVars>>

\* keyPressEvent, lines 223-233: Return or Enter with a PIN in the field
keyPressEvent ==
    /\ pin_input.text # <<>>
    /\ verify_pin(timers)
    /\ UNCHANGED <<fitVars, expVars, composeVars, maskVars, storeVars,
                 captureVars>>

\* the auto-submit timer of line 221 fires
verify_pin_timeout ==
    /\ timers.verify_pin > 0
    /\ verify_pin([timers EXCEPT !.verify_pin = @ - 1])
    /\ UNCHANGED <<fitVars, expVars, composeVars, maskVars, storeVars,
                 captureVars>>

(***************************************************************************)
(* Capture page (src/src/pages/capture_display.py).  `self` holds the      *)
(* attributes and widgets of one CaptureDisplayPage.  A captured photo is  *)
(* the number of the camera shot together with the exposure that the       *)
(* slider showed when the shot was taken; exposures are in tenths of a     *)
(* stop, the slider's own unit.                                            *)
(***************************************************************************)
DefaultPhotosPerStrip == 4
CountdownStart == 3

\* The most camera shots of one session, and the most photos kept.
MaxShots == 5
MaxKept == 5

SliderValues == {-20, 0, 10}

NoCapture == [is_none |-> TRUE]
NoPage == [photos_per_strip |-> 0]
NoComposeCall == [called |-> FALSE]
WorldIdle == [shots |-> 0, frame_exists |-> TRUE]

CaptureIdle ==
    /\ self = NoPage
    /\ signal = "none"
    /\ compose_call = NoComposeCall
    /\ world = WorldIdle

\* __init__, lines 44-79: the frame files exist (else ValueError), and
\* initialize_camera (lines 402-419) either gets a camera and starts the
\* feed or disables the capture button.
PageInit ==
    /\ \E camera \in BOOLEAN :
           self = [captured_photos |-> <<>>,
                   current_photo_index |-> 0,
                   current_capture |-> NoCapture,
                   photos_per_strip |-> DefaultPhotosPerStrip,
                   final_image |-> "None",
                   current_exposure |-> 0,
                   exposure_values |-> <<>>,
                   countdown_value |-> CountdownStart,
                   countdown_timer |-> FALSE,
                   feed_timer |-> camera,
                   camera_handler |-> camera,
                   capture_button |-> camera,
                   stacked_widget |-> "capture_widget"]
    /\ signal = "none"
    /\ compose_call = NoComposeCall
    /\ world = WorldIdle

\* return_to_capture_mode, lines 673-693
return_to_capture_mode(page) ==
    [page EXCEPT !.current_exposure = 0,
                 !.stacked_widget = "capture_widget",
                 !.feed_timer = page.camera_handler]

\* The body of retake_current_photo, lines 658-671.
RetakeCurrentPhoto(page) ==
    return_to_capture_mode([page EXCEPT !.current_capture = NoCapture,
                                        !.current_exposure = 0])

\* The user moves the exposure slider of the capture widget:
\* _on_exposure_changed, lines 330-338.
on_exposure_changed ==
    /\ signal = "none"
    /\ self.stacked_widget = "capture_widget"
    /\ \E value \in SliderValues \ {self.current_exposure} :
           self' = [self EXCEPT !.current_exposure = value]
    /\ UNCHANGED <<signal, compose_call, world>>
    /\ UNCHANGED <<fitVars, expVars, composeVars, maskVars, storeVars, loginVars>>

\* start_countdown, lines 470-484 (the capture button was clicked)
start_countdown ==
    /\ signal = "none"
    /\ self.stacked_widget = "capture_widget"
    /\ self.capture_button
    /\ world.shots < MaxShots
    /\ self' = IF ~self.camera_handler THEN self
               ELSE [self EXCEPT !.capture_button = FALSE,
                                 !.countdown_value = CountdownStart,
                                 !.countdown_timer = TRUE]
    /\ UNCHANGED <<signal, compose_call, world>>
    /\ UNCHANGED <<fitVars, expVars, composeVars, maskVars, storeVars, loginVars>>

\* capture_photo of the page, lines 549-592.  camera_ok: the camera
\* delivered a frame (else CameraHandler.capture_photo raises RuntimeError,
\* lines 589-592).  When the frame file is gone, apply_frame raises
\* FileNotFoundError, which is not caught here: the handler ends after the
\* append of line 573.
capture_photo_page(page, camera_ok) ==
    IF ~page.camera_handler THEN page
    ELSE LET stopped == [page EXCEPT !.feed_timer = FALSE]
         IN  IF ~camera_ok
             THEN [RetakeCurrentPhoto(stopped) EXCEPT !.capture_button = TRUE]
             ELSE LET taken ==
                          [stopped EXCEPT
                              !.current_capture =
                                  [is_none |-> FALSE,
                                   shot |-> world.shots + 1,
                                   exposure |-> page.current_exposure],
                              !.exposure_values =
                                  Append(@, page.current_exposure)]
                  IN  IF ~world.frame_exists THEN taken
                      ELSE [taken EXCEPT !.stacked_widget = "preview_widget",
                                         !.capture_button = TRUE]

\* update_countdown, lines 536-547: a tick of the countdown timer; the last
\* tick takes the photo.
update_countdown ==
    /\ signal = "none"
    /\ self.countdown_timer
    /\ IF self.countdown_value - 1 > 0
       THEN /\ self' = [self EXCEPT !.countdown_value = @ - 1]
            /\ UNCHANGED world
       ELSE \E camera_ok \in BOOLEAN :
               /\ self' = capture_photo_page(
                              [self EXCEPT !.countdown_value = @ - 1,
                                           !.countdown_timer = FALSE],
                              camera_ok)
               /\ world' = IF camera_ok /\ self.camera_handler
                           THEN [world EXCEPT !.shots = @ + 1]
                           ELSE world
    /\ UNCHANGED <<signal, compose_call>>
    /\ UNCHANGED <<fitVars, expVars, composeVars, maskVars, storeVars, loginVars>>

\* accept_and_next_photo, lines 634-656, with compose_and_proceed, lines
\* 695-731 (the KEEP button of the preview).  compose_photostrip raises
\* FileNotFoundError when a frame file is gone (frame_composer.py, line 62);
\* compose_call records the arguments it was called with.
accept_and_next_photo ==
    /\ signal = "none"
    /\ self.stacked_widget = "preview_widget"
    /\ Len(self.captured_photos) < MaxKept
    /\ LET appended == IF self.current_capture # NoCapture
                       THEN [self EXCEPT !.captured_photos =
                                             Append(@, self.current_capture)]
                       ELSE self
           kept == [appended EXCEPT !.current_photo_index = @ + 1]
       IN  IF kept.current_photo_index >= kept.photos_per_strip
           THEN IF Len(kept.captured_photos) # kept.photos_per_strip
                THEN /\ self' = kept
                     /\ UNCHANGED <<signal, compose_call>>
                ELSE /\ compose_call' =
                            [called |-> TRUE,
                             photos |-> kept.captured_photos,
                             exposure_values |-> kept.exposure_values,
                             failed |-> ~world.frame_exists]
                     /\ IF world.frame_exists
                        THEN /\ self' = [kept EXCEPT !.final_image = "image"]
                             /\ signal' = "photostrip_ready"
                        ELSE /\ self' = return_to_capture_mode(kept)
                             /\ UNCHANGED signal
           ELSE /\ self' = return_to_capture_mode(kept)
                /\ UNCHANGED <<signal, compose_call>>
    /\ UNCHANGED world
    /\ UNCHANGED <<fitVars, expVars, composeVars, maskVars, storeVars, loginVars>>

\* retake_current_photo, lines 658-671 (the RETAKE button of the preview)
retake_current_photo ==
    /\ signal = "none"
    /\ self.stacked_widget = "preview_widget"
    /\ self' = RetakeCurrentPhoto(self)
    /\ UNCHANGED <<signal, compose_call, world>>
    /\ UNCHANGED <<fitVars, expVars, composeVars, maskVars, storeVars, loginVars>>

\* _on_back_clicked, lines 813-837, with cleanup, lines 733-744 (called here
\* or by hideEvent, lines 839-842); the answer No of the confirmation leaves
\* everything as it is.
on_back_clicked ==
    /\ signal = "none"
    /\ LET photo_count == Len(self.captured_photos)
                            + (IF self.current_capture # NoCapture THEN 1 ELSE 0)
       IN  IF photo_count > 0 \/ self.final_image # "None"
           THEN self' = [self EXCEPT !.captured_photos = <<>>,
                                     !.exposure_values = <<>>,
                                     !.current_photo_index = 0,
                                     !.feed_timer = FALSE,
                                     !.camera_handler = FALSE]
           ELSE self' = [self EXCEPT !.feed_timer = FALSE,
                                     !.camera_handler = FALSE]
    /\ signal' = "go_back"
    /\ UNCHANGED <<compose_call, world>>
    /\ UNCHANGED <<fitVars, expVars, composeVars, maskVars, storeVars, loginVars>>

\* The frame file of the strip is removed from, or put back into, the
\* frames directory while the page is open.
frame_file_changes ==
    /\ signal = "none"
    /\ world' = [world EXCEPT !.frame_exists = ~@]
    /\ UNCHANGED <<self, signal, compose_call>>
    /\ UNCHANGED <<fitVars, expVars, composeVars, maskVars, storeVars, loginVars>>

(***************************************************************************)
(* Specification of the fit transforms: the arguments are drawn in the     *)
(* initial state and one transform is applied to them.                     *)
(***************************************************************************)
FitInit ==
    /\ fit_in \in [sw : Dims, sh : Dims, tw : Dims, th : Dims]
    /\ fit_out = NoOutput
    /\ exp_in = NoOutput
    /\ exp_out = NoOutput
    /\ ComposeInit
    /\ MaskIdle
    /\ StoreIdle
    /\ LoginInit
    /\ CaptureIdle

cover_fit_frame ==
    /\ fit_out = NoOutput
    /\ fit_out' = CoverFitFrame(fit_in.tw, fit_in.th, fit_in.sw, fit_in.sh)
    /\ UNCHANGED <<fit_in, expVars, composeVars, standaloneVars>>

capture_photo ==
    /\ fit_out = NoOutput
    /\ fit_out' = CapturePhotoCrop(fit_in.sw, fit_in.sh, fit_in.tw, fit_in.th)
    /\ UNCHANGED <<fit_in, expVars, composeVars, standaloneVars>>

contain_fit ==
    /\ fit_out = NoOutput
    /\ fit_out' = ContainFit(fit_in.sw, fit_in.sh, fit_in.tw, fit_in.th)
    /\ UNCHANGED <<fit_in, expVars, composeVars, standaloneVars>>

\* apply_frame on a photo of the drawn target size, with a frame asset of
\* the drawn source size or with a path that does not exist.
apply_frame_sizes ==
    /\ fit_out = NoOutput
    /\ \E frame_path \in {FrameSimple, FrameMissing} :
           fit_out' = [op |-> "apply_frame", frame_path |-> frame_path,
                       returned |->
                           apply_frame([unit |-> 1, w |-> fit_in.tw,
                                        h |-> fit_in.th, data |-> <<100>>],
                                       frame_path)]
    /\ UNCHANGED <<fit_in, expVars, composeVars, standaloneVars>>

\* Variant that fits the photo into the frame's dimensions.
apply_frame_from_bytes_frame_fit ==
    /\ fit_out = NoOutput
    /\ fit_out' = [ContainFit(fit_in.tw, fit_in.th, fit_in.sw, fit_in.sh)
                      EXCEPT !.op = "apply_frame_from_bytes"]
    /\ UNCHANGED <<fit_in, expVars, composeVars, standaloneVars>>

\* Placement of the photo in apply_frame_from_bytes (camera.py, lines 56-89;
\* the same arithmetic as composition.py, lines 192-203): photo_width and
\* photo_height are the size of photo_pil itself.
apply_frame_from_bytes_sizes ==
    /\ fit_out = NoOutput
    /\ fit_out' = [ContainFit(fit_in.tw, fit_in.th, fit_in.tw, fit_in.th)
                      EXCEPT !.op = "apply_frame_from_bytes"]
    /\ UNCHANGED <<fit_in, expVars, composeVars, standaloneVars>>

FitNext ==
    \/ cover_fit_frame
    \/ capture_photo
    \/ contain_fit
    \/ apply_frame_sizes
    \/ apply_frame_from_bytes_sizes

vars == <<fit_in, fit_out, exp_in, exp_out, op, pc, args, exposure_values,
          frame_paths_list, photo_bytes_list, framed_photos, grid,
          resized_photos, photostrip, result, mask_in, mask_out, files,
          store_call, loaded, pin_input, error_label, is_authenticated,
          failed_attempts, timers, last_verify, self, signal, compose_call,
          world>>

SpecFit == FitInit /\ [][FitNext]_vars

(***************************************************************************)
(* Specification of the exposure adjuster: a frame and an exposure value   *)
(* are drawn in the initial state and apply_exposure is called on them.    *)
(***************************************************************************)
KeySamples == {0, 1, 2, 7, 100, 128, 254, 255}
SamplesOf(n) == IF n = 1 THEN 0..255 ELSE KeySamples
Frames == UNION {[1..n -> SamplesOf(n)] : n \in 0..MaxPixels}
ExposureInputs == (ExposureMin..ExposureMax) \cup {-50, -30, 30, 50}

ExposureInit ==
    /\ exp_in \in [frame : Frames, exposure_value : ExposureInputs]
    /\ exp_out = NoOutput
    /\ fit_in = NoOutput
    /\ fit_out = NoOutput
    /\ ComposeInit
    /\ MaskIdle
    /\ StoreIdle
    /\ LoginInit
    /\ CaptureIdle

call_apply_exposure ==
    /\ exp_in # NoOutput
    /\ exp_out = NoOutput
    /\ exp_out' = apply_exposure(exp_in.frame, exp_in.exposure_value)
    /\ UNCHANGED <<exp_in, fitVars, composeVars, standaloneVars>>

ExposureNext == call_apply_exposure

SpecExposure == ExposureInit /\ [][ExposureNext]_vars

(***************************************************************************)
(* Specification of the composition entry points: any sequence of calls of *)
(* compose_photostrip, stitch_photostrip_from_bytes and the POST route,    *)
(* each run to its return or exception.                                    *)
(***************************************************************************)
Init ==
    /\ ComposeInit
    /\ fit_in = NoOutput
    /\ fit_out = NoOutput
    /\ exp_in = NoOutput
    /\ exp_out = NoOutput
    /\ MaskIdle
    /\ StoreIdle
    /\ LoginInit
    /\ CaptureIdle

Next ==
    \/ call_compose_photostrip
    \/ compose_check_photos
    \/ compose_check_frames
    \/ compose_frame_unit
    \/ compose_layout
    \/ compose_resize_unit
    \/ compose_new_canvas
    \/ compose_paste_unit
    \/ compose_return
    \/ call_stitch_photostrip_from_bytes
    \/ call_route
    \/ route_validate
    \/ route_decode_unit
    \/ stitch_check
    \/ stitch_load_unit
    \/ stitch_layout
    \/ stitch_resize_unit
    \/ stitch_new_canvas
    \/ stitch_paste_unit
    \/ stitch_return
    \/ call_apply_frame
    \/ call_returns

Spec == Init /\ [][Next]_vars

(***************************************************************************)
(* Specification of the opacity mask: a cropped frame is drawn in the      *)
(* initial state and one compositor variant makes its frame layer of it.   *)
(***************************************************************************)
MaskInit ==
    /\ mask_in \in MaskFrames
    /\ mask_out = NoOutput
    /\ fit_in = NoOutput
    /\ fit_out = NoOutput
    /\ exp_in = NoOutput
    /\ exp_out = NoOutput
    /\ ComposeInit
    /\ StoreIdle
    /\ LoginInit
    /\ CaptureIdle

\* apply_frame of the desktop compositor
desktop_frame_layer ==
    /\ mask_out = NoOutput
    /\ mask_out' = [op |-> "apply_frame", frame_layer |-> resolve_mask(mask_in)]
    /\ UNCHANGED <<mask_in, fitVars, expVars, composeVars, storeVars,
                   loginVars, captureVars>>

\* apply_frame_to_photo_pil of the compose module of the web API
api_compose_frame_layer ==
    /\ mask_out = NoOutput
    /\ mask_out' = [op |-> "apply_frame_to_photo_pil",
                    frame_layer |-> apply_frame_to_photo_pil(mask_in, mask_in)]
    /\ UNCHANGED <<mask_in, fitVars, expVars, composeVars, storeVars,
                   loginVars, captureVars>>

\* apply_frame_from_bytes of the capture endpoint of the web API
api_capture_frame_layer ==
    /\ mask_out = NoOutput
    /\ mask_out' = [op |-> "apply_frame_from_bytes",
                    frame_layer |-> apply_frame_from_bytes(mask_in)]
    /\ UNCHANGED <<mask_in, fitVars, expVars, composeVars, storeVars,
                   loginVars, captureVars>>

MaskNext ==
    \/ desktop_frame_layer
    \/ api_compose_frame_layer
    \/ api_capture_frame_layer

SpecMask == MaskInit /\ [][MaskNext]_vars

(***************************************************************************)
(* Specification of TemplateStorage: any sequence of save, delete and      *)
(* load_all on a directory that is empty or holds one unreadable file.     *)
(***************************************************************************)
StoreInit ==
    /\ files \in {<<>>, <<"m", "_", "y">> :> Corrupted}
    /\ store_call = NoCall
    /\ loaded = NotLoaded
    /\ fit_in = NoOutput
    /\ fit_out = NoOutput
    /\ exp_in = NoOutput
    /\ exp_out = NoOutput
    /\ ComposeInit
    /\ MaskIdle
    /\ LoginInit
    /\ CaptureIdle

StoreNext ==
    \/ \E template \in Templates : save(template)
    \/ \E template \in Templates : delete(template)
    \/ load_all

SpecStorage == StoreInit /\ [][StoreNext]_vars

(***************************************************************************)
(* Specification of the login page: any sequence of keypad clicks, key     *)
(* presses and timer expiries on a page that has just been constructed.    *)
(***************************************************************************)
LoginNext ==
    \/ append_digit
    \/ clear_input
    \/ clear_input_timeout
    \/ enter_button_clicked
    \/ keyPressEvent
    \/ verify_pin_timeout

LoginSpecInit ==
    /\ LoginInit
    /\ CaptureIdle
    /\ fit_in = NoOutput
    /\ fit_out = NoOutput
    /\ exp_in = NoOutput
    /\ exp_out = NoOutput
    /\ ComposeInit
    /\ MaskIdle
    /\ StoreIdle

SpecLogin == LoginSpecInit /\ [][LoginNext]_vars

(***************************************************************************)
(* Specification of the capture page: one page from its construction until *)
(* it emits go_back or photostrip_ready.                                   *)
(***************************************************************************)
CaptureNext ==
    \/ on_exposure_changed
    \/ start_countdown
    \/ update_countdown
    \/ accept_and_next_photo
    \/ retake_current_photo
    \/ on_back_clicked
    \/ frame_file_changes

CaptureSpecInit ==
    /\ PageInit
    /\ fit_in = NoOutput
    /\ fit_out = NoOutput
    /\ exp_in = NoOutput
    /\ exp_out = NoOutput
    /\ ComposeInit
    /\ MaskIdle
    /\ StoreIdle
    /\ LoginInit

SpecCapture == CaptureSpecInit /\ [][CaptureNext]_vars

(***************************************************************************)
(* Claims about the composition entry points (checked under Spec).         *)
(***************************************************************************)
Border == IF op = "compose_photostrip" THEN args.border_width ELSE gap
TargetSize ==
    IF op = "compose_photostrip" THEN args.target_size
    ELSE <<A6Width, A6Height>>
Done == op \notin {"none", "apply_frame"} /\ pc = "done"
ReturnedCanvas == Done /\ result.status = "ok"

\* C1: the image returned by compose_photostrip (and by
\* stitch_photostrip_from_bytes) has exactly the dimensions
\* (target_width, target_height), whatever the sizes of the photos.
C1_CanvasSize ==
    /\ ReturnedCanvas =>
          (result.image.w = TargetSize[1] /\ result.image.h = TargetSize[2])
    /\ (op # "none" /\ photostrip # NoCanvas) =>
          (photostrip.w = TargetSize[1] /\ photostrip.h = TargetSize[2])

\* C1 witness: compose_photostrip has returned a 9-photo strip whose first
\* photo is a portrait among landscapes, on a canvas that the cells do not
\* fill exactly.
C1_Witness ==
    /\ ReturnedCanvas
    /\ op = "compose_photostrip"
    /\ num_photos = 9
    /\ args.photos[1].h > args.photos[1].w
    /\ args.photos[2].w > args.photos[2].h
    /\ Len(result.image.cells) = 9
    /\ grid.photo_width * grid.cols + args.border_width * (grid.cols + 1)
           < args.target_size[1]

\* The pixels (0-based) that some pasted cell covers.
Covered(x, y) ==
    \E k \in DOMAIN photostrip.cells :
        LET c == photostrip.cells[k]
        IN  /\ c.x <= x /\ x < c.x + c.w
            /\ c.y <= y /\ y < c.y + c.h

CornerBlocks(b, w, h) ==
    {<<x, y>> : x \in 0..(b - 1), y \in 0..(b - 1)}
    \cup {<<x, y>> : x \in (w - b)..(w - 1), y \in 0..(b - 1)}
    \cup {<<x, y>> : x \in 0..(b - 1), y \in (h - b)..(h - 1)}
    \cup {<<x, y>> : x \in (w - b)..(w - 1), y \in (h - b)..(h - 1)}

\* C2: on the black canvas no pasted cell covers a pixel of the outer band
\* of width border_width; in particular the b x b block at each of the four
\* corners stays black, for both layouts.
C2_BorderBand ==
    (op # "none" /\ photostrip # NoCanvas) =>
        /\ \A k \in DOMAIN photostrip.cells :
              LET c == photostrip.cells[k]
              IN  /\ c.x >= Border
                  /\ c.y >= Border
                  /\ c.x + c.w <= photostrip.w - Border
                  /\ c.y + c.h <= photostrip.h - Border
        /\ \A p \in CornerBlocks(Border, photostrip.w, photostrip.h) :
              ~Covered(p[1], p[2])

\* C2 witness: a returned 9-photo strip with a border of at least one pixel.
C2_Witness ==
    /\ ReturnedCanvas
    /\ Border >= 1
    /\ num_photos = 9
    /\ Len(photostrip.cells) = 9

\* C3: every composition entry point rejects a request whose number of
\* units is not 4 or 9 and returns no canvas.
C3_ArityRejected ==
    (Done /\ num_photos \notin {4, 9}) => result.status # "ok"

\* C4: compose_photostrip given N photos and a frame list shorter than N
\* signals an error; it never returns a canvas with fewer than N cells.
C4_ShortFrameListRejected ==
    (Done /\ op = "compose_photostrip") =>
        /\ (~args.frame_paths.is_str
            /\ Len(args.frame_paths.list) < num_photos)
               => result.status # "ok"
        /\ result.status = "ok" => Len(result.image.cells) >= num_photos

\* C5: with grid (1,4) for 4 units and (3,3) for 9, the k-th pasted cell
\* shows input unit k and has its top-left corner at
\* (border + (i mod cols)*(cell_w+border), border + (i div cols)*(cell_h+border))
\* with i = k - 1: row-major in input order.
C5_RowMajorInputOrder ==
    (op # "none" /\ num_photos \in {4, 9}) =>
        LET cols == IF num_photos = 4 THEN 1 ELSE 3
            rows == IF num_photos = 4 THEN 4 ELSE 3
            cell_w == (TargetSize[1] - Border * (cols + 1)) \div cols
            cell_h == (TargetSize[2] - Border * (rows + 1)) \div rows
        IN  \A k \in DOMAIN photostrip.cells :
               LET i == k - 1
                   c == photostrip.cells[k]
               IN  /\ c.unit = args.photos[k].unit
                   /\ c.unit = k
                   /\ c.x = Border + (i % cols) * (cell_w + Border)
                   /\ c.y = Border + (i \div cols) * (cell_h + Border)

\* C5 witness: a returned 3x3 strip on the 10x14 canvas with border 1, whose
\* fifth cell (unit 5) sits in the middle of the grid.
C5_Witness ==
    /\ ReturnedCanvas
    /\ op = "compose_photostrip"
    /\ num_photos = 9
    /\ args.target_size = <<10, 14>>
    /\ args.border_width = 1
    /\ Len(photostrip.cells) = 9
    /\ photostrip.cells[5].unit = 5
    /\ photostrip.cells[5].x = 4
    /\ photostrip.cells[5].y = 5

(***************************************************************************)
(* Claims about the fit transforms (checked under SpecFit).                *)
(***************************************************************************)

\* C6: for all positive source sizes and target rectangles the cover-fit
\* step returns an image of exactly the target size (w, h), both for the
\* frame cover-fit of apply_frame and for the cover-crop of
\* CameraHandler.capture_photo.
C6_CoverFitExactSize ==
    (fit_out.op \in {"cover_frame", "capture_photo"} /\ fit_out.status = "ok")
        => (fit_out.out_w = fit_in.tw /\ fit_out.out_h = fit_in.th)

\* C7: the contain-fit step yields new_w <= w and new_h <= h, each within
\* one pixel of the exact aspect-preserving size  src * min(w/src_w, h/src_h),
\* and the centring offsets are non-negative so that the resized image lies
\* inside the rectangle.
C7_ContainFitInside ==
    fit_out.op = "contain" =>
        /\ fit_out.new_w <= fit_in.tw
        /\ fit_out.new_h <= fit_in.th
        /\ fit_out.photo_x >= 0
        /\ fit_out.photo_y >= 0
        /\ fit_out.photo_x + fit_out.new_w <= fit_in.tw
        /\ fit_out.photo_y + fit_out.new_h <= fit_in.th
        /\ IF fit_in.tw * fit_in.sh <= fit_in.th * fit_in.sw
           THEN /\ Abs(fit_out.new_w - fit_in.tw) <= 1
                /\ Abs(fit_out.new_h * fit_in.sw - fit_in.sh * fit_in.tw)
                       <= fit_in.sw
           ELSE /\ Abs(fit_out.new_h - fit_in.th) <= 1
                /\ Abs(fit_out.new_w * fit_in.sh - fit_in.sw * fit_in.th)
                       <= fit_in.sh

\* C7 witness: a contain-fit of a source whose aspect ratio differs from the
\* rectangle's, leaving a margin on one axis.
C7_Witness ==
    /\ fit_out.op = "contain"
    /\ fit_out.status = "ok"
    /\ fit_in.sw * fit_in.th # fit_in.sh * fit_in.tw
    /\ fit_out.new_h < fit_in.th
    /\ fit_out.photo_y > 0
    /\ fit_out.new_w = fit_in.tw

(***************************************************************************)
(* Claims about the exposure adjuster (checked under SpecExposure).        *)
(***************************************************************************)
RECURSIVE SumSamples(_)
SumSamples(frame) ==
    IF Len(frame) = 0 THEN 0 ELSE Head(frame) + SumSamples(Tail(frame))

\* Mean brightness of two frames of the same shape compares as their sums.
MeanLeq(f, g) == SumSamples(f) <= SumSamples(g)
MeanLess(f, g) == SumSamples(f) < SumSamples(g)

Returned == exp_out # NoOutput /\ exp_out.status = "ok"

\* C8: apply_exposure(img, 0.0) returns an image equal to img sample for
\* sample, for every non-empty image.
C8_ExposureZeroIdentity ==
    (exp_out # NoOutput /\ exp_in.exposure_value = 0 /\ Len(exp_in.frame) > 0)
        => (exp_out.status = "ok" /\ exp_out.frame = exp_in.frame)

\* C8 witness: apply_exposure has returned for exposure 0.0 on an image with
\* a mid-range sample.
C8_Witness ==
    /\ Returned
    /\ exp_in.exposure_value = 0
    /\ \E i \in DOMAIN exp_in.frame : exp_in.frame[i] = 128

\* C9: exposure values outside [-2.0, +2.0] are clamped and never rejected:
\* for e > 2 the result equals that of 2.0 and for e < -2 that of -2.0.
C9_ExposureClamped ==
    (exp_out # NoOutput /\ Len(exp_in.frame) > 0) =>
        /\ exp_out.status = "ok"
        /\ exp_in.exposure_value > ExposureMax =>
               exp_out = apply_exposure(exp_in.frame, ExposureMax)
        /\ exp_in.exposure_value < ExposureMin =>
               exp_out = apply_exposure(exp_in.frame, ExposureMin)

\* C9 witness: a call with exposure -5.0 on an image that -2.0 darkens.
C9_Witness ==
    /\ Returned
    /\ exp_in.exposure_value = -50
    /\ MeanLess(exp_out.frame, exp_in.frame)

\* Mean brightness is monotone in the exposure value: the result for the
\* drawn exposure is no brighter than the result for any larger exposure.
MonotoneInExposure ==
    \A e2 \in ExposureInputs :
        exp_in.exposure_value < e2 =>
            MeanLeq(exp_out.frame, apply_exposure(exp_in.frame, e2).frame)

\* C10 as stated: for every image and all e1 < e2 the mean brightness of
\* apply_exposure(img, e1) is at most that of apply_exposure(img, e2), and
\* for a non-saturated, non-black image (every sample in 1..254) a positive
\* exposure strictly increases and a negative one strictly decreases the mean.
C10_StrictForAnyExposure ==
    Returned =>
        /\ MonotoneInExposure
        /\ (\A i \in DOMAIN exp_in.frame : exp_in.frame[i] \in 1..254) =>
               /\ exp_in.exposure_value > 0 =>
                      MeanLess(exp_in.frame, exp_out.frame)
               /\ exp_in.exposure_value < 0 =>
                      MeanLess(exp_out.frame, exp_in.frame)

\* C10 amended: the mean brightness is monotone (<=) in the exposure for
\* every image; for an image with at least one sample in 1..254 an exposure
\* of +1.0 or more strictly increases the mean and an exposure of -1.0 or
\* less strictly decreases it.
C10_ExposureMonotone ==
    Returned =>
        /\ MonotoneInExposure
        /\ (\E i \in DOMAIN exp_in.frame : exp_in.frame[i] \in 1..254) =>
               /\ exp_in.exposure_value >= 10 =>
                      MeanLess(exp_in.frame, exp_out.frame)
               /\ exp_in.exposure_value <= -10 =>
                      MeanLess(exp_out.frame, exp_in.frame)

\* C10 witness: +1.0 stop on an image with one saturated and one mid-range
\* sample: the mid-range sample doubles and the mean rises.
C10_Witness ==
    /\ Returned
    /\ exp_in.exposure_value = 10
    /\ exp_in.frame = <<255, 100>>
    /\ exp_out.frame = <<255, 200>>

(***************************************************************************)
(* Further claims about the composition entry points (checked under Spec). *)
(***************************************************************************)

\* C11: in every composition path the exposure of a unit is applied to the
\* raw photo before the frame is composited onto it, so the pixels that the
\* frame layer contributes to a unit are never scaled by the exposure
\* factor: they keep the samples of the frame.
C11_FramePixelsNeverScaled ==
    /\ op = "compose_photostrip" =>
          \A i \in DOMAIN framed_photos :
              framed_photos[i].frame_data = FramePixels(frame_paths_list[i])
    /\ op = "route" =>
          \A i \in DOMAIN photo_bytes_list :
              photo_bytes_list[i].frame_data = args.photos[i].frame_data

MissingFrameReferenced ==
    /\ op = "compose_photostrip"
    /\ IF args.frame_paths.is_str
       THEN ~PathExists(args.frame_paths.path)
       ELSE \E i \in DOMAIN args.frame_paths.list :
               ~PathExists(args.frame_paths.list[i])

\* What C15 says of a call that references a missing frame asset: no photo
\* is ever exposure-adjusted or framed, no canvas is made, and the call
\* ends with FileNotFoundError at its first error, without a second try.
MissingAssetSurfaced ==
    /\ pc \in {"check_photos", "check_frames", "done"}
    /\ framed_photos = <<>>
    /\ photostrip = NoCanvas
    /\ pc = "done" => result.status = "FileNotFoundError"

\* C15 as stated: if any referenced frame asset does not exist, apply_frame
\* and compose_photostrip signal FileNotFoundError immediately, and
\* compose_photostrip does so before any photo is exposure-adjusted or
\* framed and returns no image.
C15_MissingAssetAlwaysSurfaced ==
    /\ MissingFrameReferenced => MissingAssetSurfaced
    /\ (op = "apply_frame" /\ ~PathExists(args.frame_path)) =>
          result.status = "FileNotFoundError"

\* C15, amended: compose_photostrip called with at least one photo and a
\* frame asset that does not exist signals FileNotFoundError before any
\* photo is exposure-adjusted or framed and returns no image (with no
\* photos it signals ValueError before it looks at the frames); apply_frame
\* signals FileNotFoundError for a missing frame whatever the photo is.
C15_MissingAssetSurfaced ==
    /\ (MissingFrameReferenced /\ num_photos > 0) => MissingAssetSurfaced
    /\ (op = "apply_frame" /\ ~PathExists(args.frame_path)) =>
          result.status = "FileNotFoundError"

\* C15 witness: compose_photostrip has ended with FileNotFoundError on nine
\* photos with non-zero exposure values whose last frame path is missing.
C15_Witness ==
    /\ MissingFrameReferenced
    /\ pc = "done"
    /\ result.status = "FileNotFoundError"
    /\ num_photos = 9
    /\ ~args.frame_paths.is_str
    /\ PathExists(args.frame_paths.list[1])
    /\ exposure_values[1] # 0

\* C16: the layout stage is a synchronisation point: the canvas is allocated
\* and the first cell pasted only after all N units have been composited
\* successfully, and a composition in which a unit failed returns no canvas.
C16_LayoutAfterAllUnits ==
    op = "compose_photostrip" =>
        /\ photostrip # NoCanvas => Len(framed_photos) = num_photos
        /\ (pc = "done" /\ result.status = "ok") =>
              Len(framed_photos) = num_photos
        /\ (pc = "done" /\ result.status # "ok") => photostrip = NoCanvas

AvailableWidth == TargetSize[1] - (Border * (grid.cols + 1))
AvailableHeight == TargetSize[2] - (Border * (grid.rows + 1))

\* C17: a canvas spec with target_width - border_width*(cols+1) <= 0 or
\* target_height - border_width*(rows+1) <= 0 is rejected (an error and no
\* canvas), and every other spec yields cells of positive width and height
\* after the floor division.
C17_CanvasSpecValidated ==
    (op \in {"compose_photostrip", "stitch", "route"} /\ grid # NoGrid) =>
        /\ (AvailableWidth <= 0 \/ AvailableHeight <= 0) =>
              (pc = "done" => result.status # "ok")
        /\ (AvailableWidth > 0 /\ AvailableHeight > 0) =>
              (grid.photo_width > 0 /\ grid.photo_height > 0)

\* C18: compose_photostrip signals ValueError and returns no image when the
\* photo list is empty or a photo buffer is empty, whatever the exposure
\* value of that unit (stated for calls whose frame assets all exist and
\* are as many as the photos, so that no other error comes first).
C18_EmptyPhotoIsValueError ==
    (/\ op = "compose_photostrip"
     /\ pc = "done"
     /\ ~MissingFrameReferenced
     /\ (args.frame_paths.is_str
            \/ Len(args.frame_paths.list) = num_photos)
     /\ (num_photos = 0
            \/ \E i \in DOMAIN args.photos : Len(args.photos[i].data) = 0))
        => result.status = "ValueError"

(***************************************************************************)
(* Further claims about the fit transforms (checked under SpecFit).        *)
(***************************************************************************)

\* C12: whatever the size of the photo and of the frame asset, the image
\* that apply_frame returns has exactly the pixel dimensions of the photo
\* and is RGB, without alpha.
C12_ApplyFrameKeepsPhotoSize ==
    (fit_out.op = "apply_frame" /\ fit_out.returned.status = "ok") =>
        /\ fit_out.returned.image.w = fit_in.tw
        /\ fit_out.returned.image.h = fit_in.th
        /\ fit_out.returned.image.mode = "RGB"

\* C12 witness: apply_frame has returned for a portrait photo and a wider,
\* lower landscape frame that it had to scale up and crop.
C12_Witness ==
    /\ fit_out.op = "apply_frame"
    /\ fit_out.returned.status = "ok"
    /\ fit_in.th > fit_in.tw
    /\ fit_in.sw > fit_in.tw
    /\ fit_in.sh < fit_in.th
    /\ fit_out.returned.image.w = fit_in.tw
    /\ fit_out.returned.image.h = fit_in.th

(***************************************************************************)
(* Claims about the opacity mask (checked under SpecMask).                 *)
(***************************************************************************)
Alpha(p) == mask_out.frame_layer.pixels[p].a

\* A feature of the dark mask than which no feature has more pixels.
IsLargestFeature(region) ==
    /\ region \in Features(dark_mask(mask_in), mask_in.w)
    /\ \A other \in Features(dark_mask(mask_in), mask_in.w) :
          Cardinality(other) <= Cardinality(region)

\* C13: when the cropped frame has a dark pixel (mean of R, G, B below 80),
\* the frame layer has alpha 0 exactly on the pixels that belong to the
\* largest 4-connected component of dark pixels and lie at a distance below
\* 0.6 * min(width, height) from the centre, and alpha 255 on every other
\* pixel, whatever alpha the asset had there.
C13_LargestCentredDarkRegion ==
    (mask_out.op = "apply_frame" /\ dark_mask(mask_in) # {}) =>
        /\ mask_out.frame_layer.status = "ok"
        /\ \E region \in Features(dark_mask(mask_in), mask_in.w) :
              /\ IsLargestFeature(region)
              /\ \A p \in DOMAIN mask_in.pixels :
                    Alpha(p) = IF p \in region
                                  /\ p \in center_proximity_mask(mask_in)
                               THEN 0 ELSE 255

\* C13 witness: a frame with two dark components of different sizes, the
\* first in raster order being the smaller; the larger has a pixel near the
\* centre, made transparent, and one too far from it, left opaque; and a
\* pixel that was translucent in the asset is opaque in the layer.
C13_Witness ==
    /\ mask_out.op = "apply_frame"
    /\ Cardinality(Features(dark_mask(mask_in), mask_in.w)) = 2
    /\ \E small, large \in Features(dark_mask(mask_in), mask_in.w) :
          /\ Cardinality(small) < Cardinality(large)
          /\ FirstPixel(small) < FirstPixel(large)
          /\ \E p, q \in large :
                /\ p \in center_proximity_mask(mask_in)
                /\ Alpha(p) = 0
                /\ q \notin center_proximity_mask(mask_in)
                /\ Alpha(q) = 255
    /\ \E p \in DOMAIN mask_in.pixels :
          mask_in.pixels[p].a < 255 /\ Alpha(p) = 255

\* C14: when the cropped frame has no dark pixel, mask resolution in every
\* compositor variant does not fail and falls back to thresholding the
\* asset's own alpha (below 128 transparent, else opaque), and the fallback
\* is reported as MaskAmbiguous.
C14_FallbackThresholdReported ==
    (mask_out.op # "none" /\ dark_mask(mask_in) = {}) =>
        /\ mask_out.frame_layer.status = "ok"
        /\ \A p \in DOMAIN mask_in.pixels :
              Alpha(p) = IF mask_in.pixels[p].a < AlphaThreshold
                         THEN 0 ELSE 255
        /\ mask_out.frame_layer.reported = "MaskAmbiguous"

(***************************************************************************)
(* Claims about TemplateStorage (checked under SpecStorage).               *)
(***************************************************************************)

ContainsIncorrect(text) == text.message = "Incorrect PIN. Attempt {}/{}"

\* C20 as stated: after every verify_pin with the configured PIN entered the
\* page is authenticated; after every verify_pin with another PIN it is not
\* authenticated and the error label shows a message containing
\* 'Incorrect'.
C20_WrongPinAlwaysIncorrect ==
    last_verify.called =>
        IF last_verify.entered_pin = correct_pin
        THEN is_authenticated
        ELSE ~is_authenticated /\ ContainsIncorrect(error_label.text)

\* C20, amended: after every verify_pin with the configured PIN entered the
\* page is authenticated; after every verify_pin with another PIN it is not
\* authenticated, and the error label reads 'Incorrect PIN. Attempt k/5'
\* for the k-th failed attempt while k < 5, and 'Maximum attempts reached.
\* Please try again later.' from the fifth failed attempt on.
C20_VerifyPin ==
    last_verify.called =>
        IF last_verify.entered_pin = correct_pin
        THEN is_authenticated
        ELSE /\ ~is_authenticated
             /\ IF failed_attempts < max_attempts
                THEN /\ ContainsIncorrect(error_label.text)
                     /\ error_label.text.attempt = failed_attempts
                ELSE error_label.text = MaximumText

\* C20 witness: a wrong PIN has been verified for the third time; the page
\* is not authenticated and shows the label with the attempt count.
C20_Witness ==
    /\ last_verify.called
    /\ last_verify.entered_pin # correct_pin
    /\ failed_attempts = 3
    /\ ~is_authenticated
    /\ ContainsIncorrect(error_label.text)
    /\ error_label.visible

(***************************************************************************)
(* Further claims about the exposure adjuster (checked under SpecExposure).*)
(***************************************************************************)

\* The integer r is s * 2^e rounded to the nearest integer (a product that
\* lies half-way between two integers goes to the even one, as Python's
\* round does); product is s * 2^e in units of 2^-20.
IsRounded(r, product) ==
    /\ 2 * Abs((r * Pow2(FixedPointBits)) - product) <= Pow2(FixedPointBits)
    /\ 2 * Abs((r * Pow2(FixedPointBits)) - product) = Pow2(FixedPointBits)
          => r % 2 = 0

\* C21: for every non-zero clamped exposure e and every 8-bit sample s the
\* adjusted sample equals min(255, round(s * 2^e)): it saturates at 255,
\* never wraps modulo 256, and lies in 0..255.
C21_SaturatingRoundedGain ==
    (Returned /\ ClampExposure(exp_in.exposure_value) # 0) =>
        \A i \in DOMAIN exp_in.frame :
            LET product == exp_in.frame[i]
                             * ExposureAlpha(ClampExposure(exp_in.exposure_value))
            IN  /\ exp_out.frame[i] \in 0..255
                /\ IF product >= 255 * Pow2(FixedPointBits)
                   THEN exp_out.frame[i] = 255
                   ELSE IsRounded(exp_out.frame[i], product)

\* C21 witness: +1.0 stop on an image with the samples 254 and 7: 508 is
\* saturated to 255 (modulo 256 it would be 252) and 7 becomes 14.
C21_Witness ==
    /\ Returned
    /\ exp_in.exposure_value = 10
    /\ \E i, j \in DOMAIN exp_in.frame :
          /\ exp_in.frame[i] = 254 /\ exp_out.frame[i] = 255
          /\ exp_in.frame[j] = 7 /\ exp_out.frame[j] = 14

(***************************************************************************)
(* Further claims about the fit transforms (checked under SpecFit).        *)
(***************************************************************************)

\* C22: in the cover-fit step, for all positive source and target sizes the
\* scaled image is at least as large as the target after integer truncation,
\* the crop offsets (scaled_w - w) div 2 and (scaled_h - h) div 2 are
\* non-negative, the crop window lies inside the scaled image, and both
\* offsets are 0 when source and target have the same aspect ratio.
C22_CropWindowInsideScaled ==
    (fit_out.op \in {"cover_frame", "capture_photo"} /\ fit_out.status = "ok")
        => /\ fit_out.scaled_w >= fit_in.tw
           /\ fit_out.scaled_h >= fit_in.th
           /\ fit_out.crop_x >= 0
           /\ fit_out.crop_y >= 0
           /\ fit_out.crop_x + fit_in.tw <= fit_out.scaled_w
           /\ fit_out.crop_y + fit_in.th <= fit_out.scaled_h
           /\ fit_in.sw * fit_in.th = fit_in.sh * fit_in.tw
                 => (fit_out.crop_x = 0 /\ fit_out.crop_y = 0)

(***************************************************************************)
(* Further claims about compose_photostrip (checked under Spec).           *)
(***************************************************************************)

\* The caller's exposure entry for photo k asks for no adjustment: it is
\* None, or the list is too short to have a k-th entry.
NoAdjustmentEntry(k) ==
    /\ ~args.exposure_values.is_none
    /\ \/ k > Len(args.exposure_values.list)
       \/ args.exposure_values.list[k] = PyNone

\* C23: in compose_photostrip an exposure entry of None for a photo, and a
\* missing entry when exposure_values is shorter than the photo list, mean
\* "no adjustment": that photo is composed unmodified and the call does not
\* fail on it; entries beyond the number of photos are ignored.
C23_NoneEntryIsNoAdjustment ==
    (op = "compose_photostrip" /\ num_photos > 0 /\ pc # "check_photos") =>
        /\ Len(exposure_values) = num_photos
        /\ \A k \in 1..num_photos :
              NoAdjustmentEntry(k) =>
                 /\ k <= Len(framed_photos)
                       => framed_photos[k].data = args.photos[k].data
                 /\ (pc = "done" /\ Len(framed_photos) = k - 1)
                       => result.status # "TypeError"

\* A step inside one call of compose_photostrip or apply_frame leaves the
\* caller's objects (photo buffers, exposure list, frame paths) as they are.
InputsKept ==
    (op \in {"compose_photostrip", "apply_frame"} /\ op' = op) => args' = args

\* At the entry of compose_photostrip nothing is left over from an earlier
\* call: every local is in its initial state.
FreshLocals ==
    (op = "compose_photostrip" /\ pc = "check_photos") =>
        /\ exposure_values = <<>>
        /\ frame_paths_list = <<>>
        /\ framed_photos = <<>>
        /\ resized_photos = <<>>
        /\ grid = NoGrid
        /\ photostrip = NoCanvas
        /\ result = NoResult

\* C24: compose_photostrip, apply_frame and apply_exposure never modify their
\* inputs: during and after any call, successful or failing, every input
\* photo buffer, the caller's exposure_values list and the frame-path list
\* hold the contents they had at the call, and no state persists between
\* calls.
C24_InputsNeverModified ==
    [][InputsKept]_vars /\ []FreshLocals

\* C24 witness: a returned composition whose first photo (sample 100) was
\* brightened by one stop to 200 in the framed copy, while the caller's
\* buffer and its short exposure list [1.0] are as passed.
C24_Witness ==
    /\ op = "compose_photostrip" /\ pc = "done"
    /\ result.status = "ok"
    /\ args.exposure_values = [is_none |-> FALSE, list |-> <<10>>]
    /\ exposure_values[1] = 10
    /\ Len(exposure_values) = num_photos
    /\ Len(framed_photos) = num_photos
    /\ args.photos[1].data = <<100>>
    /\ framed_photos[1].data = <<200>>

\* The rectangles of two cells have no pixel in common.
DisjointCells(c, d) ==
    \/ c.x + c.w <= d.x
    \/ d.x + d.w <= c.x
    \/ c.y + c.h <= d.y
    \/ d.y + d.h <= c.y

\* C25: for every valid canvas spec (border_width >= 0, positive available
\* width and height) the rectangles of the pasted cells are pairwise
\* disjoint, horizontally and vertically adjacent cells are separated by
\* exactly border_width pixels, every cell lies inside the canvas, and the
\* right and bottom outer margins are at least border_width and exceed it by
\* less than cols (resp. rows) pixels.
C25_CellGeometry ==
    (/\ op \in {"compose_photostrip", "stitch", "route"}
     /\ photostrip # NoCanvas
     /\ Border >= 0 /\ AvailableWidth > 0 /\ AvailableHeight > 0) =>
        \A k \in DOMAIN photostrip.cells :
            LET c == photostrip.cells[k]
                col == (k - 1) % grid.cols
                row == (k - 1) \div grid.cols
                right == photostrip.w - (c.x + c.w)
                bottom == photostrip.h - (c.y + c.h)
            IN  /\ c.x >= 0 /\ c.y >= 0 /\ right >= 0 /\ bottom >= 0
                /\ \A j \in 1..(k - 1) :
                      DisjointCells(photostrip.cells[j], c)
                /\ col > 0 =>
                      LET left == photostrip.cells[k - 1]
                      IN  c.x - (left.x + left.w) = Border /\ c.y = left.y
                /\ row > 0 =>
                      LET above == photostrip.cells[k - grid.cols]
                      IN  c.y - (above.y + above.h) = Border /\ c.x = above.x
                /\ col = grid.cols - 1 =>
                      (Border <= right /\ right < Border + grid.cols)
                /\ row = grid.rows - 1 =>
                      (Border <= bottom /\ bottom < Border + grid.rows)

\* C25 witness: a returned 3x3 strip on the 10x14 canvas with border 1: the
\* cells are 2x3, the right margin equals the border and the bottom margin
\* exceeds it by the remainder 1 of 10 div 3.
C25_Witness ==
    /\ ReturnedCanvas
    /\ op = "compose_photostrip"
    /\ args.target_size = <<10, 14>>
    /\ args.border_width = 1
    /\ Len(photostrip.cells) = 9
    /\ photostrip.cells[9].x + photostrip.cells[9].w = 9
    /\ photostrip.cells[9].y + photostrip.cells[9].h = 12

(***************************************************************************)
(* The photo fit of the single-photo compositor (checked under SpecFit).   *)
(***************************************************************************)

\* C26: in the single-photo compositor the photo is fitted to its own pixel
\* dimensions, so its fit scale is exactly 1 and its placement offset is
\* (0, 0) for every photo size; the cover variant (apply_frame) and the
\* contain variant (apply_frame_from_bytes) therefore place the photo
\* identically, over the whole canvas, and no background pixel is visible.
C26_PhotoFitIsIdentity ==
    /\ (fit_out.op = "apply_frame" /\ fit_out.returned.status = "ok") =>
          /\ fit_out.returned.image.photo_x = 0
          /\ fit_out.returned.image.photo_y = 0
          /\ fit_out.returned.image.w = fit_in.tw
          /\ fit_out.returned.image.h = fit_in.th
    /\ fit_out.op = "apply_frame_from_bytes" =>
          /\ fit_out.status = "ok"
          /\ fit_out.scale.num = fit_out.scale.den
          /\ fit_out.scale.err = 0
          /\ fit_out.new_w = fit_in.tw
          /\ fit_out.new_h = fit_in.th
          /\ fit_out.photo_x = 0
          /\ fit_out.photo_y = 0

\* C26 witness: the contain variant has placed an 11x15 photo, a size whose
\* ratio to a 15x11 frame is not representable in binary64.
C26_Witness ==
    /\ fit_out.op = "apply_frame_from_bytes"
    /\ fit_in = [sw |-> 15, sh |-> 11, tw |-> 11, th |-> 15]
    /\ fit_out.new_w = 11
    /\ fit_out.new_h = 15
    /\ fit_out.photo_x = 0

(***************************************************************************)
(* Branches of the opacity mask of apply_frame (checked under SpecMask).   *)
(***************************************************************************)

\* The feature that np.argmax selects: a largest one, and among the largest
\* the one with the lowest label (labels follow raster order).
IsSelectedFeature(region) ==
    /\ IsLargestFeature(region)
    /\ \A other \in Features(dark_mask(mask_in), mask_in.w) :
          IsLargestFeature(other) => FirstPixel(region) <= FirstPixel(other)

\* C27: in apply_frame the thresholded-alpha fallback is taken if and only
\* if the dark mask is empty; when dark pixels exist but the selected
\* largest dark component has no pixel at a distance below
\* 0.6 * min(width, height) from the centre, there is no fallback and the
\* frame layer is opaque everywhere; when several components tie for
\* largest, only the lowest-labelled one can become transparent.
C27_FallbackOnlyWithoutDarkPixels ==
    mask_out.op = "apply_frame" =>
        /\ mask_out.frame_layer.branch = "alpha_threshold"
              <=> dark_mask(mask_in) = {}
        /\ dark_mask(mask_in) # {} =>
              \E region \in Features(dark_mask(mask_in), mask_in.w) :
                  /\ IsSelectedFeature(region)
                  /\ \A p \in DOMAIN mask_in.pixels :
                        Alpha(p) = 0 => p \in region
                  /\ region \cap center_proximity_mask(mask_in) = {} =>
                        \A p \in DOMAIN mask_in.pixels : Alpha(p) = 255

\* C27 witness: two dark components of one pixel each tie for largest; the
\* lowest-labelled lies away from the centre and the other at the centre,
\* a translucent pixel is present, and the layer is opaque everywhere.
C27_Witness ==
    /\ mask_out.op = "apply_frame"
    /\ mask_out.frame_layer.branch = "dark_region"
    /\ \E first, second \in Features(dark_mask(mask_in), mask_in.w) :
          /\ IsSelectedFeature(first)
          /\ IsLargestFeature(second)
          /\ first # second
          /\ first \cap center_proximity_mask(mask_in) = {}
          /\ second \cap center_proximity_mask(mask_in) # {}
    /\ \E p \in DOMAIN mask_in.pixels : mask_in.pixels[p].a < AlphaThreshold
    /\ \A p \in DOMAIN mask_in.pixels : Alpha(p) = 255

(***************************************************************************)
(* Claims about the capture page (checked under SpecCapture).              *)
(***************************************************************************)

\* C28: after any sequence of capture, retake and keep actions, when
\* compose_and_proceed calls compose_photostrip the lists are aligned:
\* exposure_values has one entry per kept photo, and entry i is the exposure
\* that was in effect when the kept photo i was taken.
C28_ExposureListAligned ==
    compose_call.called =>
        /\ Len(compose_call.exposure_values) = Len(compose_call.photos)
        /\ \A i \in DOMAIN compose_call.photos :
              /\ i <= Len(compose_call.exposure_values)
              /\ compose_call.exposure_values[i] = compose_call.photos[i].exposure

\* C29: in every reachable state of the page current_photo_index equals
\* len(captured_photos) and is at most photos_per_strip, and
\* compose_photostrip is called only with exactly photos_per_strip kept
\* photos; this also holds after a composition attempt has failed and the
\* page has returned to capture mode.
C29_IndexCountsKeptPhotos ==
    signal = "none" =>
        /\ self.current_photo_index = Len(self.captured_photos)
        /\ self.current_photo_index <= self.photos_per_strip
        /\ compose_call.called =>
              Len(compose_call.photos) = self.photos_per_strip

(***************************************************************************)
(* Isolation of stored templates (checked under SpecStorage).              *)
(***************************************************************************)

\* C30: saving or deleting a template never affects a stored template with
\* a different name: the file of every template stored under another name
\* is still there, with the same contents, after the call (so load_all
\* still returns that template unchanged), also when the two names differ
\* only in case or punctuation.
C30_OtherTemplatesUntouched ==
    [][\A stem \in DOMAIN files :
          (/\ files[stem].valid
           /\ store_call'.op \in {"save", "delete"}
           /\ files[stem].name # store_call'.template.name)
              => (stem \in DOMAIN files' /\ files'[stem] = files[stem])]_vars

====
